---- MODULE Spec2Model ----
(***************************************************************************)
(* A model of the AquaQuery backend.                                       *)
(*                                                                         *)
(*   Spec        the agent pipeline: the LangGraph state graph of          *)
(*               backend/agents/supervisor.py with the ReAct tool loop of  *)
(*               QueryAgent.run (backend/agents/query_agent.py) running    *)
(*               inside its query nodes.                                   *)
(*   SpecManager the fetch/cache layer: ArgoDataManager.get_data and       *)
(*               get_data_by_float (backend/data/argo_manager.py) with     *)
(*               the quality filter of backend/data/loader.py.            *)
(*   SpecTools   the data tools (backend/tools/*.py): the validation of    *)
(*               their arguments, their calls of the data layer and the    *)
(*               result they return.                                       *)
(*   SpecClassify  classify_intent (backend/agents/supervisor.py) over     *)
(*               short messages and raw model outputs.                     *)
(*   SpecViz     VizAgent.run (backend/agents/viz_agent.py) and the chat   *)
(*               endpoints (backend/api/routes.py) that answer from the    *)
(*               final state of the graph.                                 *)
(*   SpecSanitizer  sanitize_response (backend/api/sanitizer.py) over      *)
(*               short texts of tags, tag halves, prose and line breaks.   *)
(*   SpecRequests  what query_ocean_data, get_floats_in_region and         *)
(*               get_nearest_profiles ask of the data layer, and           *)
(*               ocean_basin_bounds (backend/tools/*.py).                  *)
(*   SpecSessions  concurrent chat_message requests on the session store   *)
(*               (backend/api/routes.py, session.py).                      *)
(*   SpecConcurrent  get_data calls of several threads on one cache file   *)
(*               (backend/data/argo_manager.py).                           *)
(*   SpecLazyManager  the tools' module-level data manager (_get_manager,  *)
(*               set_manager, ArgoDataManager.__init__).                   *)
(*   SpecRateLimit  RateLimitMiddleware (backend/api/middleware.py).       *)
(*                                                                         *)
(* The language model, the tools' bodies and the remote data sources are   *)
(* the environment: their answers are nondeterministic choices.  A call    *)
(* of the language model that raises is not modelled (the graph invocation *)
(* is then aborted by the exception).                                      *)
(***************************************************************************)
EXTENDS Integers, Sequences, FiniteSets, TLC

VARIABLES
    \* ---- the agent pipeline -------------------------------------------
    node,             \* the graph node that runs next ("END" when finished)
    trace,            \* the nodes that have run, in order
    intent,           \* AgentState.intent
    agent_path,       \* AgentState.metadata.agent_path
    out_messages,     \* the messages the last node returned
    qpc,              \* position inside QueryAgent.run
    iteration,        \* the loop variable of QueryAgent.run
    conversation,     \* the local list `conversation`
    pending,          \* tool calls of the current response not yet handled
    all_tool_results, \* the local dict `all_tool_results`
    executed,         \* history: every registered-tool invocation made
    llm_calls,        \* history: every model call made by run, in order
    messages,         \* state["messages"]: the list QueryAgent.run is given
    \* ---- the fetch/cache layer ----------------------------------------
    mpc,              \* position inside get_data / get_data_by_float
    call,             \* the parameters of the call in progress
    cache,            \* the cache directory: cache key -> file content
    src_i,            \* which source of source_order is being tried
    ds,               \* the local variable `ds`
    raw,              \* history: the dataset as the remote source gave it
    attempts,         \* history: remote fetches of the call, in order
    hit,              \* history: the call found a cache file
    outcome,          \* how the call ended: "none", "returned", "raised"
    ret,              \* the value the call returned
    worker,           \* the pool thread of _fetch_xarray_with_timeout
    \* ---- the data tools ------------------------------------------------
    tpc,              \* position inside the tool invocation
    tool,             \* the tool invoked and its arguments
    ids_left,         \* data-layer calls the tool has still to make
    t_attempts,       \* history: remote fetches of the data-layer call
    data_calls,       \* history: data-layer calls made by the invocation
    data_result,      \* what the data-layer call gave: dataset, None, raised
    comparisons,      \* the local list `comparisons` of compare_floats
    tool_out,         \* the dict the tool returned
    \* ---- classify_intent ----------------------------------------------
    c_message,        \* the user message: its words, in order
    c_output,         \* response.content of the classifier model
    c_result,         \* what classify_intent returned (Pending before)
    \* ---- VizAgent.run and the visualization of the chat response -------
    v_pc,             \* position: "start", "llm", "returned", "raised", "end"
    v_results,        \* the values of data["tool_results"], in dict order
    v_llm_calls,      \* history: calls of the language model made by run
    v_content,        \* response.content of the language model
    v_viz,            \* the visualization run returned
    v_final,          \* the content of the last message of the graph
    v_response,       \* how the endpoint answered
    v_stored,         \* the assistant message put into the session store
    \* ---- sanitize_response --------------------------------------------
    s_pc,             \* "start", "once" (applied), "twice" (applied again)
    s_in,             \* the argument `content`
    s_once,           \* sanitize_response(s_in)
    s_twice,           \* sanitize_response(s_once)
    \* ---- the requests of the region tools ------------------------------
    rq_pc,            \* "idle", "rejected" (no request made), "sent",
                      \* or "returned" (ocean_basin_bounds has returned)
    rq_args,          \* the arguments the tool was invoked with
    rq_sent,          \* the request the tool passed to the data layer
    b_basin,          \* the argument `basin` of ocean_basin_bounds
    b_out,             \* the dict ocean_basin_bounds returned
    \* ---- concurrent chat_message requests and the session store -------
    h_pc,             \* per request: "new", "rejected", "invoking", "done",
                      \* "failed"
    h_session,        \* per request: the local variable `session_id`
    sessions,          \* SessionStore._sessions: session id -> messages
    \* ---- concurrent get_data calls with the same parameters ------------
    k_pc,             \* per thread: position inside get_data
    k_file,           \* the cache file of the key: "absent", "partial",
                      \* "complete" or "corrupt"
    k_writers,        \* the threads inside ds.to_netcdf(cached)
    k_shared,         \* two threads have been writing the file together
    k_read,            \* per thread: the file state its cache hit opened
    \* ---- the module-level data managers of the tools ------------------
    g_manager,        \* per tool module: the global `_manager`
    g_serial,         \* ArgoDataManager instances made so far
    g_sets,           \* per tool module: calls of set_manager so far
    g_log,             \* history: the calls of _get_manager by the tools
    \* ---- RateLimitMiddleware -------------------------------------------
    l_limit,          \* self._limit (-1 before the middleware is made)
    l_now,            \* time.monotonic(), in seconds
    l_requests,       \* self._requests: client IP -> list of timestamps
    l_log             \* history: every request dispatched and its answer

pipeVars == <<node, trace, intent, agent_path, out_messages, qpc, iteration,
              conversation, pending, all_tool_results, executed, llm_calls,
              messages>>
mgrVars  == <<mpc, call, cache, src_i, ds, raw, attempts, hit, outcome, ret,
              worker>>
toolVars == <<tpc, tool, ids_left, t_attempts, data_calls, data_result,
              comparisons, tool_out>>
clsVars  == <<c_message, c_output, c_result>>
vizVars  == <<v_pc, v_results, v_llm_calls, v_content, v_viz, v_final,
              v_response, v_stored>>
sanVars  == <<s_pc, s_in, s_once, s_twice>>
reqVars == <<rq_pc, rq_args, rq_sent, b_basin, b_out>>
sessVars == <<h_pc, h_session, sessions>>
concVars == <<k_pc, k_file, k_writers, k_shared, k_read>>
lazyVars == <<g_manager, g_serial, g_sets, g_log>>
limVars == <<l_limit, l_now, l_requests, l_log>>
vars == <<pipeVars, mgrVars, toolVars, clsVars, vizVars, sanVars, reqVars,
         sessVars, concVars, lazyVars, limVars>>

\* What a step of each subsystem leaves alone.
notPipe == <<mgrVars, toolVars, clsVars, vizVars, sanVars, reqVars,
            sessVars, concVars, lazyVars, limVars>>
notMgr == <<pipeVars, toolVars, clsVars, vizVars, sanVars, reqVars,
            sessVars, concVars, lazyVars, limVars>>
notTool == <<pipeVars, mgrVars, clsVars, vizVars, sanVars, reqVars,
            sessVars, concVars, lazyVars, limVars>>
notCls == <<pipeVars, mgrVars, toolVars, vizVars, sanVars, reqVars,
            sessVars, concVars, lazyVars, limVars>>
notViz == <<pipeVars, mgrVars, toolVars, clsVars, sanVars, reqVars,
            sessVars, concVars, lazyVars, limVars>>
notSan == <<pipeVars, mgrVars, toolVars, clsVars, vizVars, reqVars,
            sessVars, concVars, lazyVars, limVars>>
notReq == <<pipeVars, mgrVars, toolVars, clsVars, vizVars, sanVars,
            sessVars, concVars, lazyVars, limVars>>
notSess == <<pipeVars, mgrVars, toolVars, clsVars, vizVars, sanVars,
            reqVars, concVars, lazyVars, limVars>>
notConc == <<pipeVars, mgrVars, toolVars, clsVars, vizVars, sanVars,
            reqVars, sessVars, lazyVars, limVars>>
notLazy == <<pipeVars, mgrVars, toolVars, clsVars, vizVars, sanVars,
            reqVars, sessVars, concVars, limVars>>
notLim == <<pipeVars, mgrVars, toolVars, clsVars, vizVars, sanVars, reqVars,
            sessVars, concVars, lazyVars>>

(***************************************************************************)
(* Bounds of the model.                                                    *)
(***************************************************************************)
\* the most tool invocations one model response carries
MaxToolCalls == 2
\* the most tool invocations requested during one run of the query agent
MaxInvocations == 5
\* the most invocations of one run that raise or name an unregistered tool
MaxFaults == 2
\* the longest list of floats compare_floats is given
MaxIds == 6
\* the most pieces of a text given to sanitize_response
MaxPieces == 4
\* the largest radius_km of get_nearest_profiles, in units of 111 km
MaxRadius == 2
\* the most chat_message requests in flight together
MaxRequests == 3
\* the most threads inside get_data with the same parameters
MaxThreads == 2
\* the most tool invocations that ask for the data manager
MaxManagerCalls == 3
\* the most requests that reach the rate limiter
MaxDispatches == 4
\* the largest requests_per_minute the middleware is made with
MaxLimit == 2
\* the most tool results the query agent hands to the viz agent
MaxResults == 2
\* the most words of a user message given to classify_intent
MaxWords == 3
\* the largest QC flag a remote dataset carries (flags are 0..MaxFlag)
MaxFlag == 4

(***************************************************************************)
(* Intent classification and routing (supervisor.py).                      *)
(***************************************************************************)
valid_intents == {"info", "data", "viz", "clarify"}

\* What the fallback heuristic reads off a user message.
Messages ==
    [data_kw : BOOLEAN, viz_kw : BOOLEAN, show : BOOLEAN,
     explain_kw : BOOLEAN, how : BOOLEAN]

\* The classifier model's answer after strip/lower/strip-quotes.
LLMLabels == {"info", "data", "viz", "clarify", "unsure", ""}

\* mutant: the word 'show' is tested before the visualization keywords
classify_intent_show_before_viz(message, label) ==
    IF label \in valid_intents THEN label
    ELSE IF message.data_kw THEN "data"
    ELSE IF message.show THEN "data"
    ELSE IF message.viz_kw THEN "viz"
    ELSE IF message.explain_kw THEN "info"
    ELSE IF message.how THEN "info"
    ELSE "clarify"

classify_intent(message, label) ==
    IF label \in valid_intents THEN label
    ELSE IF message.data_kw THEN "data"
    ELSE IF message.viz_kw THEN "viz"
    ELSE IF message.show THEN "data"
    ELSE IF message.explain_kw THEN "info"
    ELSE IF message.how THEN "info"
    ELSE "clarify"

\* mutant: the data and viz branches exchanged
route_by_intent_swapped(i) ==
    IF i = "info" THEN "rag"
    ELSE IF i = "data" THEN "query_for_viz"
    ELSE IF i = "viz" THEN "query"
    ELSE "clarify"

route_by_intent(i) ==
    IF i = "info" THEN "rag"
    ELSE IF i = "data" THEN "query"
    ELSE IF i = "viz" THEN "query_for_viz"
    ELSE "clarify"

\* graph.add_edge: the unconditional edges
edge(n) ==
    IF n = "query_for_viz" THEN "viz" ELSE "END"

(***************************************************************************)
(* QueryAgent.run (query_agent.py).                                        *)
(***************************************************************************)
max_iterations == 5

\* tool_map: the names of QUERY_TOOLS the model draws from, and a name that
\* is not registered
tool_map == {"ocean_basin_bounds", "query_ocean_data"}
ToolNames == tool_map \cup {"lookup_weather"}

SystemMessage == [type |-> "system"]
HumanMessage  == [type |-> "human"]
AIMessage(calls, tools_bound) ==
    [type |-> "ai", tool_calls |-> calls, tools_bound |-> tools_bound]
ToolMessage(content, id) ==
    [type |-> "tool", content |-> content, tool_call_id |-> id]

\* The tool calls of the response of round `it`: names with the id the model
\* gave the call.
ToolCalls(names, it) ==
    [k \in 1..Len(names) |-> [name |-> names[k], id |-> <<it, k>>]]

NameLists == UNION {[1..n -> ToolNames] : n \in 0..MaxToolCalls}

\* f"{tool_name}_{iteration}"
result_key(tc, it) == <<tc.name, it>>

ToolOutcomes == {"ok", "raise"}
OkResult(name)  == [success |-> TRUE, tool |-> name]
ExcResult       == [success |-> FALSE, error |-> "str(e)"]
UnknownResult(name) == [error |-> <<"Unknown tool: ", name>>]

\* Invocations requested so far in this run, and those among them that
\* raised or named an unregistered tool.
Requested ==
    Len(SelectSeq(conversation, LAMBDA m : m.type = "tool")) + Len(pending)

IsFault(m) ==
    /\ m.type = "tool"
    /\ \/ "success" \notin DOMAIN m.content
       \/ ~m.content.success

Faults ==
    Len(SelectSeq(conversation, IsFault))
    + Len(SelectSeq(pending, LAMBDA tc : tc.name \notin tool_map))

Unregistered(names) ==
    Cardinality({k \in DOMAIN names : names[k] \notin tool_map})

\* `for iteration in range(max_iterations)`: where run goes after the last
\* tool call of round `it`
\* mutant: the loop bound off by one
after_round_off_by_one(it) ==
    IF it < max_iterations THEN "llm" ELSE "summary"

after_round(it) ==
    IF it + 1 < max_iterations THEN "llm" ELSE "summary"

PipeInit ==
    /\ node = "supervisor"
    /\ trace = <<>>
    /\ intent = ""
    /\ agent_path = <<>>
    /\ out_messages = <<>>
    /\ qpc = "idle"
    /\ iteration = 0
    /\ conversation = <<>>
    /\ pending = <<>>
    /\ all_tool_results = <<>>
    /\ executed = <<>>
    /\ llm_calls = <<>>
    /\ messages = <<HumanMessage>>

queryVars == <<qpc, iteration, conversation, pending, all_tool_results,
               executed, llm_calls>>

supervisor_node ==
    /\ node = "supervisor"
    /\ \E message \in Messages, label \in LLMLabels :
          intent' = classify_intent(message, label)
    /\ agent_path' = <<"supervisor">>
    /\ trace' = Append(trace, "supervisor")
    /\ node' = route_by_intent(intent')
    /\ UNCHANGED <<out_messages, queryVars>>
    /\ UNCHANGED messages

rag_node ==
    /\ node = "rag"
    /\ trace' = Append(trace, "rag")
    /\ out_messages' = <<AIMessage(<<>>, FALSE)>>
    /\ agent_path' = Append(agent_path, "rag_agent")
    /\ node' = edge(node)
    /\ UNCHANGED <<intent, queryVars>>
    /\ UNCHANGED messages

clarify_node ==
    /\ node = "clarify"
    /\ trace' = Append(trace, "clarify")
    /\ out_messages' = <<AIMessage(<<>>, FALSE)>>
    /\ agent_path' = <<"supervisor", "clarify">>
    /\ node' = edge(node)
    /\ UNCHANGED <<intent, queryVars>>
    /\ UNCHANGED messages

\* VizAgent.run returns a visualization and no message.
viz_node ==
    /\ node = "viz"
    /\ trace' = Append(trace, "viz")
    /\ out_messages' = <<>>
    /\ agent_path' = Append(agent_path, "viz_agent")
    /\ node' = edge(node)
    /\ UNCHANGED <<intent, queryVars>>
    /\ UNCHANGED messages

\* query_node up to its call of query_agent.run, and run up to its loop
query_node_call ==
    /\ node \in {"query", "query_for_viz"}
    /\ qpc = "idle"
    /\ trace' = Append(trace, node)
    /\ conversation' = <<SystemMessage>> \o messages
    /\ all_tool_results' = <<>>
    /\ iteration' = 0
    /\ qpc' = "llm"
    /\ UNCHANGED <<node, intent, agent_path, out_messages, pending, executed,
                   llm_calls>>
    /\ UNCHANGED messages

\* One round's model call: `response = await self._llm.ainvoke(conversation)`,
\* the append, and the return when the response carries no tool calls.
run_llm_round ==
    /\ qpc = "llm"
    /\ \E names \in NameLists :
          /\ Requested + Len(names) <= MaxInvocations
          /\ Faults + Unregistered(names) <= MaxFaults
          /\ LET response == AIMessage(ToolCalls(names, iteration), TRUE)
             IN  /\ llm_calls' = Append(llm_calls,
                        [tools |-> TRUE, input |-> conversation,
                         response |-> response])
                 /\ conversation' = Append(conversation, response)
                 /\ IF response.tool_calls = <<>>
                    THEN /\ out_messages' = <<response>>
                         /\ qpc' = "returned"
                         /\ pending' = <<>>
                    ELSE /\ out_messages' = out_messages
                         /\ qpc' = "tools"
                         /\ pending' = response.tool_calls
    /\ UNCHANGED <<node, trace, intent, agent_path, iteration,
                   all_tool_results, executed>>
    /\ UNCHANGED messages

\* The dict store `all_tool_results[key] = result`.
store(d, key, result) ==
    [k \in DOMAIN d \cup {key} |-> IF k = key THEN result ELSE d[k]]

\* mutant: an exception of a tool is not caught and leaves run
run_tool_call_propagates ==
    /\ qpc = "tools"
    /\ pending # <<>>
    /\ LET tc == Head(pending)
           key == result_key(tc, iteration)
           last == Tail(pending) = <<>>
       IN  \/ /\ tc.name \in tool_map
              /\ Faults < MaxFaults
              /\ qpc' = "raised"
              /\ UNCHANGED <<all_tool_results, executed, conversation,
                             pending, iteration>>
           \/ /\ tc.name \in tool_map
              /\ all_tool_results' =
                     store(all_tool_results, key, OkResult(tc.name))
              /\ executed' = Append(executed,
                     [call |-> tc, round |-> iteration, outcome |-> "ok",
                      result |-> OkResult(tc.name)])
              /\ conversation' = Append(conversation,
                     ToolMessage(OkResult(tc.name), tc.id))
              /\ pending' = Tail(pending)
              /\ iteration' = IF last THEN iteration + 1 ELSE iteration
              /\ qpc' = IF last THEN after_round(iteration) ELSE "tools"
           \/ /\ tc.name \notin tool_map
              /\ conversation' = Append(conversation,
                     ToolMessage(UnknownResult(tc.name), tc.id))
              /\ pending' = Tail(pending)
              /\ iteration' = IF last THEN iteration + 1 ELSE iteration
              /\ qpc' = IF last THEN after_round(iteration) ELSE "tools"
              /\ UNCHANGED <<all_tool_results, executed>>
    /\ UNCHANGED <<node, trace, intent, agent_path, out_messages, llm_calls>>
    /\ UNCHANGED messages

\* mutant: the tool is looked up without the membership test, so an
\* unregistered name raises KeyError out of run
run_tool_call_keyerror ==
    /\ qpc = "tools"
    /\ pending # <<>>
    /\ LET tc == Head(pending)
           key == result_key(tc, iteration)
           last == Tail(pending) = <<>>
       IN  \/ /\ tc.name \in tool_map
              /\ \E o \in ToolOutcomes :
                   /\ o = "raise" => Faults < MaxFaults
                   /\ LET result == IF o = "ok" THEN OkResult(tc.name)
                                    ELSE ExcResult
                      IN  /\ all_tool_results' =
                                 store(all_tool_results, key, result)
                          /\ executed' = Append(executed,
                                 [call |-> tc, round |-> iteration,
                                  outcome |-> o, result |-> result])
                          /\ conversation' = Append(conversation,
                                 ToolMessage(result, tc.id))
              /\ pending' = Tail(pending)
              /\ iteration' = IF last THEN iteration + 1 ELSE iteration
              /\ qpc' = IF last THEN after_round(iteration) ELSE "tools"
           \/ /\ tc.name \notin tool_map
              /\ qpc' = "raised"
              /\ UNCHANGED <<all_tool_results, executed, conversation,
                             pending, iteration>>
    /\ UNCHANGED <<node, trace, intent, agent_path, out_messages, llm_calls>>
    /\ UNCHANGED messages

\* mutant: an unregistered tool name gets no tool message
run_tool_call_skips_unknown ==
    /\ qpc = "tools"
    /\ pending # <<>>
    /\ LET tc == Head(pending)
           key == result_key(tc, iteration)
           last == Tail(pending) = <<>>
       IN  /\ \/ /\ tc.name \in tool_map
                 /\ \E o \in ToolOutcomes :
                      /\ o = "raise" => Faults < MaxFaults
                      /\ LET result == IF o = "ok" THEN OkResult(tc.name)
                                    ELSE ExcResult
                         IN  /\ all_tool_results' =
                                    store(all_tool_results, key, result)
                             /\ executed' = Append(executed,
                                    [call |-> tc, round |-> iteration,
                                     outcome |-> o, result |-> result])
                             /\ conversation' = Append(conversation,
                                    ToolMessage(result, tc.id))
              \/ /\ tc.name \notin tool_map
                 /\ UNCHANGED <<all_tool_results, executed, conversation>>
           /\ pending' = Tail(pending)
           /\ iteration' = IF last THEN iteration + 1 ELSE iteration
           /\ qpc' = IF last THEN after_round(iteration) ELSE "tools"
    /\ UNCHANGED <<node, trace, intent, agent_path, out_messages, llm_calls>>
    /\ UNCHANGED messages

\* One pass of `for tc in response.tool_calls`.
run_tool_call ==
    /\ qpc = "tools"
    /\ pending # <<>>
    /\ LET tc == Head(pending)
           key == result_key(tc, iteration)
           last == Tail(pending) = <<>>
       IN  /\ \/ /\ tc.name \in tool_map
                 /\ \E o \in ToolOutcomes :
                      /\ o = "raise" => Faults < MaxFaults
                      /\ LET result == IF o = "ok" THEN OkResult(tc.name)
                                    ELSE ExcResult
                         IN  /\ all_tool_results' =
                                    store(all_tool_results, key, result)
                             /\ executed' = Append(executed,
                                    [call |-> tc, round |-> iteration,
                                     outcome |-> o, result |-> result])
                             /\ conversation' = Append(conversation,
                                    ToolMessage(result, tc.id))
              \/ /\ tc.name \notin tool_map
                 /\ conversation' = Append(conversation,
                        ToolMessage(UnknownResult(tc.name), tc.id))
                 /\ UNCHANGED <<all_tool_results, executed>>
           /\ pending' = Tail(pending)
           /\ iteration' = IF last THEN iteration + 1 ELSE iteration
           /\ qpc' = IF last THEN after_round(iteration) ELSE "tools"
    /\ UNCHANGED <<node, trace, intent, agent_path, out_messages, llm_calls>>
    /\ UNCHANGED messages

\* mutant: the summary model is built with the tools bound, and its tool
\* calls are not looked at
run_summary_with_tools ==
    /\ qpc = "summary"
    /\ \E names \in NameLists :
         LET final == AIMessage(ToolCalls(names, iteration), TRUE)
         IN  /\ llm_calls' = Append(llm_calls,
                    [tools |-> TRUE, input |-> conversation,
                     response |-> final])
             /\ out_messages' = <<final>>
    /\ qpc' = "returned"
    /\ UNCHANGED <<node, trace, intent, agent_path, iteration, conversation,
                   pending, all_tool_results, executed>>
    /\ UNCHANGED messages

\* `final = await summary_llm.ainvoke(conversation)` and the return
run_summary ==
    /\ qpc = "summary"
    /\ LET final == AIMessage(<<>>, FALSE)
       IN  /\ llm_calls' = Append(llm_calls,
                  [tools |-> FALSE, input |-> conversation,
                   response |-> final])
           /\ out_messages' = <<final>>
    /\ qpc' = "returned"
    /\ UNCHANGED <<node, trace, intent, agent_path, iteration, conversation,
                   pending, all_tool_results, executed>>
    /\ UNCHANGED messages

\* mutant: query_node returns a path of its own instead of appending
query_node_return_resets_path ==
    /\ node \in {"query", "query_for_viz"}
    /\ qpc = "returned"
    /\ agent_path' = <<"query_agent">>
    /\ node' = edge(node)
    /\ qpc' = "done"
    /\ UNCHANGED <<trace, intent, out_messages, iteration, conversation,
                   pending, all_tool_results, executed, llm_calls>>
    /\ UNCHANGED messages

\* query_node after run has returned
query_node_return ==
    /\ node \in {"query", "query_for_viz"}
    /\ qpc = "returned"
    /\ agent_path' = Append(agent_path, "query_agent")
    /\ node' = edge(node)
    /\ qpc' = "done"
    /\ UNCHANGED <<trace, intent, out_messages, iteration, conversation,
                   pending, all_tool_results, executed, llm_calls>>
    /\ UNCHANGED messages

PipeNext ==
    \/ supervisor_node
    \/ rag_node
    \/ clarify_node
    \/ viz_node
    \/ query_node_call
    \/ run_llm_round
    \/ run_tool_call
    \/ run_summary
    \/ query_node_return

(***************************************************************************)
(* The datasets of the fetch/cache layer (loader.py, argo_manager.py).     *)
(*                                                                         *)
(* A dataset maps the names of its variables to columns of equal length; a *)
(* measurement is a number or NaN.                                         *)
(***************************************************************************)
QC_VARS == <<"TEMP", "PSAL", "PRES", "DOXY">>

\* f"{var}_QC"
qc_name(var) ==
    CASE var = "TEMP" -> "TEMP_QC"
      [] var = "PSAL" -> "PSAL_QC"
      [] var = "PRES" -> "PRES_QC"
      [] var = "DOXY" -> "DOXY_QC"

NaN == [nan |-> TRUE]
Value(x) == [v |-> x]
NoneValue == [kind |-> "None"]
Dataset(columns) == [kind |-> "dataset", vars |-> columns]

NMeas == MaxFlag + 1
\* The flags 0..MaxFlag, each once, starting at `first`.
Flags(first) == [k \in 1..NMeas |-> (first + k - 1) % (MaxFlag + 1)]
\* Measurements 10, 12, 14, ...; the one at index `missing` is NaN already.
Column(base, missing) ==
    [k \in 1..NMeas |-> IF k = missing THEN NaN ELSE Value(base + 2 * k)]

Restrict(f, names) == [n \in names |-> f[n]]

FullColumns ==
    [TEMP |-> Column(8, 0),   TEMP_QC |-> Flags(0),
     PSAL |-> Column(30, 2),  PSAL_QC |-> Flags(1),
     PRES |-> Column(100, 0), PRES_QC |-> Flags(2),
     DOXY |-> Column(200, 1), DOXY_QC |-> Flags(3),
     LATITUDE |-> Column(40, 0)]

\* What a remote source may answer: every variable with its flags; a dataset
\* without DOXY; one whose PSAL has no PSAL_QC beside it.
RawDatasets ==
    { Dataset(FullColumns),
      Dataset(Restrict(FullColumns,
          DOMAIN FullColumns \ {"DOXY", "DOXY_QC"})),
      Dataset(Restrict(FullColumns, DOMAIN FullColumns \ {"PSAL_QC"})) }

\* mutant: only flag 1 counts as good
good_flags_only_1 == {1}

\* `.isin([1, 2])`
good_flags == {1, 2}

RECURSIVE filter_vars(_, _)
\* The loop of _apply_qc_filter over the variables from index i on.
filter_vars(columns, i) ==
    IF i > Len(QC_VARS) THEN columns
    ELSE LET var == QC_VARS[i]
             qc  == qc_name(var)
             out == IF var \in DOMAIN columns /\ qc \in DOMAIN columns
                    THEN [columns EXCEPT ![var] =
                            [k \in DOMAIN columns[var] |->
                                IF columns[qc][k] \in good_flags
                                THEN columns[var][k] ELSE NaN]]
                    ELSE columns
         IN  filter_vars(out, i + 1)

apply_qc_filter(d) == Dataset(filter_vars(d.vars, 1))

(***************************************************************************)
(* ArgoDataManager.get_data and get_data_by_float (argo_manager.py).       *)
(***************************************************************************)
\* Python's None among the parameters
None == "None"

RegionCall(start_date, end_date) ==
    [kind |-> "region", lon_min |-> -80, lon_max |-> 0, lat_min |-> 20,
     lat_max |-> 60, depth_min |-> 0, depth_max |-> 2000,
     start_date |-> start_date, end_date |-> end_date]
FloatCall(wmo_id) == [kind |-> "float", wmo_id |-> wmo_id]

\* The calls made: one box without dates, with both dates and with a start
\* date only, and one float.
Calls ==
    { RegionCall(None, None),
      RegionCall("2024-01-01", "2024-03-31"),
      RegionCall("2024-01-01", None),
      FloatCall(6902746) }

\* mutant: end_date is left out of the key
build_cache_key_without_end_date(c) ==
    IF c.kind = "float"
    THEN [type |-> "float", wmo_id |-> c.wmo_id]
    ELSE [depth_max |-> c.depth_max, depth_min |-> c.depth_min,
          lat_max |-> c.lat_max,
          lat_min |-> c.lat_min, lon_max |-> c.lon_max,
          lon_min |-> c.lon_min, start_date |-> c.start_date]

\* _build_cache_key and _build_float_cache_key: the MD5 digest of the JSON
\* text of the parameters, keys sorted.  The digest is taken to be injective
\* on the texts of the model, so the key is the JSON object itself.
build_cache_key(c) ==
    IF c.kind = "float"
    THEN [type |-> "float", wmo_id |-> c.wmo_id]
    ELSE [depth_max |-> c.depth_max, depth_min |-> c.depth_min,
          end_date |-> c.end_date, lat_max |-> c.lat_max,
          lat_min |-> c.lat_min, lon_max |-> c.lon_max,
          lon_min |-> c.lon_min, start_date |-> c.start_date]

\* What the fetcher is asked for: the argopy region list, or the float.
fetch_request(c) ==
    IF c.kind = "float" THEN [float |-> c.wmo_id]
    ELSE LET box == <<c.lon_min, c.lon_max, c.lat_min, c.lat_max,
                      c.depth_min, c.depth_max>>
         IN  IF c.start_date # None /\ c.end_date # None
             THEN [region |-> box, dates |-> <<c.start_date, c.end_date>>]
             ELSE [region |-> box, dates |-> <<>>]

\* mutant: GDAC is tried first
source_order_gdac_first == <<"gdac", "erddap">>

\* The sources in the order get_data tries them.
source_order == <<"erddap", "gdac">>

\* A file of the cache directory: a complete dataset (with, as history, the
\* raw dataset and the call it was fetched for) or a file whose write did
\* not finish.
CompleteFile(d, r, c) == [kind |-> "complete", data |-> d, raw |-> r, for |-> c]
PartialFile == [kind |-> "partial"]

FetchOutcomes == {"ok", "raise", "timeout"}

\* The manager after construction: an empty cache directory and no call yet
\* (`call` holds a placeholder until the first call).
MgrIdle ==
    /\ mpc = "idle"
    /\ call = FloatCall(0)
    /\ cache = <<>>
    /\ src_i = 1
    /\ ds = NoneValue
    /\ raw = NoneValue
    /\ attempts = <<>>
    /\ hit = FALSE
    /\ outcome = "none"
    /\ ret = NoneValue
    /\ worker = "none"

\* A caller calls get_data or get_data_by_float.
get_data_call ==
    /\ mpc \in {"idle", "done"}
    /\ \E c \in Calls : call' = c
    /\ mpc' = "check"
    /\ ds' = NoneValue
    /\ raw' = NoneValue
    /\ attempts' = <<>>
    /\ hit' = FALSE
    /\ outcome' = "none"
    /\ ret' = NoneValue
    /\ src_i' = 1
    /\ UNCHANGED <<cache, worker>>

\* `if cached.exists(): return xr.open_dataset(cached)`; open_dataset raises
\* on a file that holds no complete dataset.
cache_check ==
    /\ mpc = "check"
    /\ LET key == build_cache_key(call)
       IN  IF key \in DOMAIN cache
           THEN /\ hit' = TRUE
                /\ mpc' = "done"
                /\ IF cache[key].kind = "complete"
                   THEN /\ outcome' = "returned"
                        /\ ret' = cache[key].data
                        /\ raw' = cache[key].raw
                   ELSE /\ outcome' = "raised"
                        /\ UNCHANGED <<ret, raw>>
           ELSE /\ mpc' = "fetch"
                /\ UNCHANGED <<hit, outcome, ret, raw>>
    /\ UNCHANGED <<call, cache, src_i, ds, attempts, worker>>

\* After the source at index i has failed: the next source, or
\* `return None` after the last.
fetch_failed(i) ==
    IF i < Len(source_order)
    THEN /\ mpc' = "fetch"
         /\ src_i' = i + 1
         /\ UNCHANGED <<outcome, ret>>
    ELSE /\ mpc' = "done"
         /\ outcome' = "returned"
         /\ ret' = NoneValue
         /\ UNCHANGED src_i

\* _try_fetch / _try_fetch_float on one source: the fetch succeeds, raises,
\* or runs into the time limit.
try_fetch ==
    /\ mpc = "fetch"
    /\ LET src == source_order[src_i]
       IN  \E o \in FetchOutcomes :
             /\ attempts' = Append(attempts,
                    [src |-> src, request |-> fetch_request(call),
                     result |-> o])
             /\ CASE o = "ok" ->
                       /\ \E d \in RawDatasets : ds' = d /\ raw' = d
                       /\ mpc' = "filter"
                       /\ UNCHANGED <<src_i, outcome, ret>>
                  [] o = "raise" ->
                       /\ fetch_failed(src_i)
                       /\ UNCHANGED <<ds, raw>>
                  [] o = "timeout" ->
                       /\ mpc' = "join"
                       /\ UNCHANGED <<src_i, ds, raw, outcome, ret>>
             /\ worker' = IF o = "timeout" THEN "running" ELSE "none"
    /\ UNCHANGED <<call, cache, hit>>

\* The pool thread returns from fetcher.to_xarray after the time limit; its
\* result stays in the future, which nobody reads.
worker_finishes ==
    /\ mpc = "join"
    /\ worker = "running"
    /\ worker' = "finished"
    /\ UNCHANGED <<mpc, call, cache, src_i, ds, raw, attempts, hit, outcome,
                   ret>>

\* _fetch_xarray_with_timeout after the time limit: the TimeoutError leaves
\* the `with ThreadPoolExecutor(...)` block, whose exit is
\* shutdown(wait=True) and returns when the pool thread has finished; the
\* TimeoutError then reaches _try_fetch, which returns None.
fetch_timed_out ==
    /\ mpc = "join"
    /\ worker = "finished"
    /\ worker' = "none"
    /\ fetch_failed(src_i)
    /\ UNCHANGED <<call, cache, ds, raw, attempts, hit>>

\* `ds = _apply_qc_filter(ds)`
filter_step ==
    /\ mpc = "filter"
    /\ ds' = apply_qc_filter(ds)
    /\ mpc' = "write"
    /\ UNCHANGED <<call, cache, src_i, raw, attempts, hit, outcome, ret,
                   worker>>

\* `ds.to_netcdf(cached)` up to the creation of the file: it raises before
\* the file exists (the exception is logged and ds returned), or the file
\* now exists and holds no complete dataset yet.
cache_write_begin ==
    /\ mpc = "write"
    /\ \/ /\ mpc' = "done"
          /\ outcome' = "returned"
          /\ ret' = ds
          /\ UNCHANGED cache
       \/ /\ cache' = store(cache, build_cache_key(call), PartialFile)
          /\ mpc' = "writing"
          /\ UNCHANGED <<outcome, ret>>
    /\ UNCHANGED <<call, src_i, ds, raw, attempts, hit, worker>>

\* The rest of `ds.to_netcdf(cached)`: the file is completed, or the write
\* raises and leaves the file as it is; ds is returned either way.
cache_write_end ==
    /\ mpc = "writing"
    /\ \/ cache' = store(cache, build_cache_key(call),
                         CompleteFile(ds, raw, call))
       \/ UNCHANGED cache
    /\ mpc' = "done"
    /\ outcome' = "returned"
    /\ ret' = ds
    /\ UNCHANGED <<call, src_i, ds, raw, attempts, hit, worker>>

MgrNext ==
    \/ get_data_call
    \/ cache_check
    \/ try_fetch
    \/ worker_finishes
    \/ fetch_timed_out
    \/ filter_step
    \/ cache_write_begin
    \/ cache_write_end

(***************************************************************************)
(* The data tools (backend/tools/argo_tools.py, float_tools.py and         *)
(* geo_tools.py) over the fetch paths of ArgoDataManager and of            *)
(* ArgoDataLoader.fetch_region.  Here one remote attempt is one step (the  *)
(* wait for the worker included), the cache directory is the environment,  *)
(* and a dataset is the set of the variable names it holds: the quality    *)
(* filter changes no name.                                                 *)
(***************************************************************************)
\* `valid_vars = {"TEMP", "PSAL", "PRES", "DOXY"}`
valid_vars == {"TEMP", "PSAL", "PRES", "DOXY"}

\* The variable arguments of the model, and str.upper on them.
Variables == {"TEMP", "temp", "Psal", "SALT", ""}
upper(s) ==
    CASE s = "temp" -> "TEMP"
      [] s = "Psal" -> "PSAL"
      [] OTHER -> s

\* The tools with a `variable` parameter, and the other tools that fetch.
VariableTools ==
    {"query_ocean_data", "query_by_float_id", "query_by_profile",
     "compare_floats"}
DataTools ==
    VariableTools \cup
        {"get_float_trajectory", "get_floats_in_region",
         "get_nearest_profiles"}

\* The tools that begin with `if variable.upper() not in valid_vars: return`.
checks_variable ==
    {"query_ocean_data", "query_by_float_id", "query_by_profile"}

\* compare_floats: `if len(wmo_ids) < 2` and `if len(wmo_ids) > 5`
min_floats == 2
max_floats == 5

\* The invocations made: a tool without the parameter has variable None,
\* and only compare_floats has a list of floats, of length n_ids.
ToolInvocations ==
    [name : VariableTools \ {"compare_floats"}, variable : Variables,
     n_ids : {0}]
    \cup [name : {"compare_floats"}, variable : Variables, n_ids : 1..MaxIds]
    \cup [name : DataTools \ VariableTools, variable : {None}, n_ids : {0}]

\* The data-layer method each tool calls.
fetch_path(name) ==
    CASE name \in {"query_ocean_data", "get_floats_in_region"} -> "get_data"
      [] name \in {"query_by_float_id", "get_float_trajectory",
                   "compare_floats"} -> "get_data_by_float"
      [] name = "query_by_profile" -> "get_data_by_profile"
      [] name = "get_nearest_profiles" -> "fetch_region"

\* get_data and get_data_by_float look into the cache directory first.
cached(path) == path \in {"get_data", "get_data_by_float"}

\* The sources in the order the path tries them.
path_sources(path) ==
    IF path = "fetch_region" THEN <<"gdac", "erddap">> ELSE source_order

\* What the cache directory holds under the key of a call.
CacheStates == {"miss", "hit", "unreadable"}

NoResult == [kind |-> "pending"]
Raised(exc) == [kind |-> "raised", exc |-> exc]
NameSet(names) == [kind |-> "dataset", names |-> names]
\* The datasets of the tool layer: every name, and pressure alone.
ToolDatasets ==
    { NameSet({"TEMP", "PSAL", "PRES", "DOXY", "LATITUDE", "LONGITUDE",
               "TIME", "PLATFORM_NUMBER"}),
      NameSet({"PRES"}) }

\* The dicts the tools return, by the fields the claims read.
NoOut == [success |-> FALSE, error |-> "", chart_hint |-> "", returned |-> FALSE]
Failure(error) ==
    [success |-> FALSE, error |-> error, chart_hint |-> "", returned |-> TRUE]
Success(chart_hint) ==
    [success |-> TRUE, error |-> "", chart_hint |-> chart_hint,
     returned |-> TRUE]

\* The `chart_hint` of a tool's successful result ("" when it has none).
chart_hint_of(name) ==
    CASE name = "get_float_trajectory" -> "trajectory_map"
      [] name = "query_by_profile" -> "depth_profile"
      [] name = "compare_floats" -> "bar_chart"
      [] OTHER -> ""

ToolIdle ==
    /\ tpc = "idle"
    /\ tool = [name |-> "", variable |-> None, n_ids |-> 0]
    /\ ids_left = 0
    /\ t_attempts = <<>>
    /\ data_calls = 0
    /\ data_result = NoResult
    /\ comparisons = <<>>
    /\ tool_out = NoOut

\* A tool is invoked: its body up to the `try`.
tool_invoke ==
    /\ tpc \in {"idle", "returned"}
    /\ \E t \in ToolInvocations :
          /\ tool' = t
          /\ IF t.name \in checks_variable /\ upper(t.variable) \notin valid_vars
             THEN /\ tool_out' = Failure("Invalid variable")
                  /\ tpc' = "returned"
                  /\ ids_left' = 0
             ELSE IF t.name = "compare_floats" /\ t.n_ids < min_floats
             THEN /\ tool_out' = Failure("Must provide at least 2 float IDs")
                  /\ tpc' = "returned"
                  /\ ids_left' = 0
             ELSE IF t.name = "compare_floats" /\ t.n_ids > max_floats
             THEN /\ tool_out' = Failure("Cannot compare more than 5 floats")
                  /\ tpc' = "returned"
                  /\ ids_left' = 0
             ELSE /\ tool_out' = NoOut
                  /\ tpc' = "call"
                  /\ ids_left' = IF t.name = "compare_floats" THEN t.n_ids
                                 ELSE 1
    /\ t_attempts' = <<>>
    /\ data_calls' = 0
    /\ data_result' = NoResult
    /\ comparisons' = <<>>

\* The tool calls the data layer: get_data and get_data_by_float return the
\* cache file when there is one (xr.open_dataset raises on an unreadable
\* file); the other paths go to the sources at once.
data_call ==
    /\ tpc = "call"
    /\ data_calls' = data_calls + 1
    /\ t_attempts' = <<>>
    /\ IF cached(fetch_path(tool.name))
       THEN \E c \in CacheStates :
               CASE c = "miss" ->
                      /\ tpc' = "fetch"
                      /\ data_result' = NoResult
                 [] c = "hit" ->
                      /\ tpc' = "result"
                      /\ \E d \in ToolDatasets : data_result' = d
                 [] c = "unreadable" ->
                      /\ tpc' = "result"
                      /\ data_result' = Raised("Exception")
       ELSE /\ tpc' = "fetch"
            /\ data_result' = NoResult
    /\ UNCHANGED <<tool, ids_left, comparisons, tool_out>>

\* One remote attempt and what the path does with its end.  The manager's
\* _try_fetch, _try_fetch_float and _try_fetch_profile turn TimeoutError and
\* any other exception into None, and None from the last source is the
\* method's result.  fetch_region re-raises a TimeoutError of its first
\* source, tries the second source after any other exception, and catches
\* nothing around the second.
data_fetch ==
    /\ tpc = "fetch"
    /\ LET path == fetch_path(tool.name)
           i    == Len(t_attempts) + 1
           src  == path_sources(path)[i]
       IN  \E o \in FetchOutcomes :
             /\ t_attempts' = Append(t_attempts, [src |-> src, result |-> o])
             /\ IF o = "ok"
                THEN /\ \E d \in ToolDatasets : data_result' = d
                     /\ tpc' = "result"
                ELSE IF path = "fetch_region"
                THEN IF i = 1 /\ o = "raise"
                     THEN /\ tpc' = "fetch"
                          /\ UNCHANGED data_result
                     ELSE /\ tpc' = "result"
                          /\ data_result' =
                                Raised(IF o = "timeout" THEN "TimeoutError"
                                       ELSE "Exception")
                ELSE IF i < Len(path_sources(path))
                     THEN /\ tpc' = "fetch"
                          /\ UNCHANGED data_result
                     ELSE /\ tpc' = "result"
                          /\ data_result' = NoneValue
    /\ UNCHANGED <<tool, ids_left, data_calls, comparisons, tool_out>>

\* The tool's code after the data-layer call: its `except TimeoutError` and
\* `except Exception` handlers, the `if ds is None` test, the tests for
\* names in ds, and for compare_floats the append and the next float.
tool_return ==
    /\ tpc = "result"
    /\ LET name == tool.name
           r    == data_result
       IN  IF r.kind = "raised"
           THEN /\ tool_out' = Failure(r.exc)
                /\ tpc' = "returned"
                /\ UNCHANGED <<ids_left, comparisons>>
           ELSE IF name = "compare_floats"
           THEN /\ comparisons' = Append(comparisons,
                     IF r = NoneValue THEN "error"
                     ELSE IF upper(tool.variable) \in r.names THEN "statistics"
                     ELSE "statistics_error")
                /\ ids_left' = ids_left - 1
                /\ IF ids_left = 1
                   THEN /\ tool_out' = Success(chart_hint_of(name))
                        /\ tpc' = "returned"
                   ELSE /\ tpc' = "call"
                        /\ UNCHANGED tool_out
           ELSE /\ tool_out' =
                      IF r = NoneValue THEN Failure("No data")
                      ELSE IF name = "query_ocean_data"
                              /\ upper(tool.variable) \notin r.names
                      THEN Failure("Variable not found")
                      ELSE IF name = "get_floats_in_region"
                              /\ "PLATFORM_NUMBER" \notin r.names
                      THEN Failure("No float identifiers")
                      ELSE Success(chart_hint_of(name))
                /\ tpc' = "returned"
                /\ UNCHANGED <<ids_left, comparisons>>
    /\ UNCHANGED <<tool, t_attempts, data_calls, data_result>>

(***************************************************************************)
(* classify_intent on message texts (supervisor.py).  A message is the     *)
(* sequence of its words, joined by single blanks.                         *)
(***************************************************************************)
Words ==
    {"Show", "showing", "temperature", "map", "what", "is", "how", "explain"}
MessageTexts == UNION {[1..n -> Words] : n \in 0..MaxWords}

\* str.lower on the words of the model
lower(w) == IF w = "Show" THEN "show" ELSE w

\* `any(w in lower_msg for w in [...])`: some keyword of the list is a
\* substring of the lowered text.  Of the words of the model, "temperature"
\* holds a keyword of the first list, "map" of the second, "explain" of the
\* third; "what is" lies across the two words "what" and "is".
has_data_keyword(m) == \E k \in DOMAIN m : lower(m[k]) = "temperature"
has_viz_keyword(m)  == \E k \in DOMAIN m : lower(m[k]) = "map"
has_explain_phrase(m) ==
    \/ \E k \in DOMAIN m : lower(m[k]) = "explain"
    \/ \E k \in DOMAIN m :
          k + 1 \in DOMAIN m /\ lower(m[k]) = "what" /\ lower(m[k + 1]) = "is"
\* `"show" in words`, `"how" in words`: a whole word of lower_msg.split()
has_word(m, w) == \E k \in DOMAIN m : lower(m[k]) = w

\* What the fallback heuristic reads off the text.
features(m) ==
    [data_kw |-> has_data_keyword(m), viz_kw |-> has_viz_keyword(m),
     show |-> has_word(m, "show"), explain_kw |-> has_explain_phrase(m),
     how |-> has_word(m, "how")]

\* The classifier model's answers, and
\* `response.content.strip().lower().strip('"').strip("'")` on them.
RawOutputs == {"data", " Viz ", "'info'", "clarify", "unknown", "data.", ""}
normalize(content) ==
    CASE content = " Viz " -> "viz"
      [] content = "'info'" -> "info"
      [] OTHER -> content

Pending == "pending"

\* No call of classify_intent under way.
ClsIdle ==
    /\ c_message = <<>>
    /\ c_output = ""
    /\ c_result = Pending

\* A call of classify_intent on any message, with any answer of the model.
ClsInit ==
    /\ c_message \in MessageTexts
    /\ c_output \in RawOutputs
    /\ c_result = Pending

\* classify_intent(message, llm) returns.
classify_call ==
    /\ c_result = Pending
    /\ c_result' = classify_intent(features(c_message), normalize(c_output))
    /\ UNCHANGED <<c_message, c_output>>

(***************************************************************************)
(* sanitize_response (backend/api/sanitizer.py).  A text is the sequence   *)
(* of its pieces: a tag (opening, closing or self-closing, of one name),   *)
(* a line break, a word of prose, or one of the two halves "<tool_" and    *)
(* "call>" of the tag <tool_call>.  Prose holds none of < > /, and a tag   *)
(* holds no / but the one of its closing or self-closing form.             *)
(***************************************************************************)
Piece(kind, name) == [kind |-> kind, name |-> name]
Open(name)  == Piece("open", name)
Close(name) == Piece("close", name)
SelfClosing(name) == Piece("self", name)
Prose(word) == Piece("text", word)
LineBreak   == Piece("text", "\n")
HalfLeft    == Piece("half", "<tool_")
HalfRight   == Piece("half", "call>")

IsTag(p, name) == p.kind \in {"open", "close", "self"} /\ p.name = name
\* The piece has a / in it.
HasSlash(p) == p.kind \in {"close", "self"}

MinOf(S) == CHOOSE x \in S : \A y \in S : x <= y
From(s, i) == SubSeq(s, i, Len(s))

RECURSIVE join(_)
\* The text as Python holds it: the two halves side by side are the tag.
join(s) ==
    IF Len(s) < 2 THEN s
    ELSE IF s[1] = HalfLeft /\ s[2] = HalfRight
    THEN <<Open("tool_call")>> \o join(From(s, 3))
    ELSE <<s[1]>> \o join(Tail(s))

RECURSIVE sub_paired(_, _, _)
\* re.sub of `<name ...>.*?</name>` (DOTALL) by "": from the leftmost
\* opener to the nearest closing tag after it, again and again to the
\* right.  `openers` are the kinds of piece the opening part matches.
sub_paired(s, name, openers) ==
    LET opens == {i \in DOMAIN s : s[i].name = name /\ s[i].kind \in openers}
    IN  IF opens = {} THEN s
        ELSE LET i == MinOf(opens)
                 closes == {j \in (i + 1)..Len(s) : s[j] = Close(name)}
             IN  IF closes = {} THEN s
                 ELSE SubSeq(s, 1, i - 1)
                         \o sub_paired(From(s, MinOf(closes) + 1), name,
                                       openers)

RECURSIVE sub_self_closing(_, _)
\* re.sub of `<name\b[^/]*/\s*>` (DOTALL) by "": from a tag of the name
\* that is not a closing tag, over everything without a /, to the first /
\* when a > follows it.
sub_self_closing(s, name) ==
    LET starts == {i \in DOMAIN s :
                      s[i].name = name /\ s[i].kind \in {"open", "self"}}
    IN  IF starts = {} THEN s
        ELSE LET i == MinOf(starts)
                 slashes == {j \in i..Len(s) : HasSlash(s[j])}
             IN  IF slashes = {} THEN s
                 ELSE LET j == MinOf(slashes)
                      IN  IF s[j].kind = "self"
                          THEN SubSeq(s, 1, i - 1)
                                  \o sub_self_closing(From(s, j + 1), name)
                          ELSE SubSeq(s, 1, i)
                                  \o sub_self_closing(From(s, i + 1), name)

\* re.sub of `</?name[^>]*>` by "": every tag of the name goes.
sub_tags(s, name) == SelectSeq(s, LAMBDA p : ~IsTag(p, name))

\* _PATTERNS, in order.
PATTERNS ==
    << [re |-> "paired", name |-> "tool_call", openers |-> {"open"}],
       [re |-> "paired", name |-> "function_calls", openers |-> {"open"}],
       [re |-> "paired", name |-> "invoke", openers |-> {"open", "self"}],
       [re |-> "self", name |-> "tool_call", openers |-> {}],
       [re |-> "self", name |-> "function_calls", openers |-> {}],
       [re |-> "self", name |-> "invoke", openers |-> {}],
       [re |-> "tags", name |-> "tool_call", openers |-> {}],
       [re |-> "tags", name |-> "function_calls", openers |-> {}],
       [re |-> "tags", name |-> "invoke", openers |-> {}],
       [re |-> "tags", name |-> "parameter", openers |-> {}],
       [re |-> "tags", name |-> "antml:invoke", openers |-> {}],
       [re |-> "tags", name |-> "antml:parameter", openers |-> {}],
       [re |-> "tags", name |-> "antml:function_calls", openers |-> {}],
       [re |-> "paired", name |-> "tool_result", openers |-> {"open"}],
       [re |-> "tags", name |-> "tool_result", openers |-> {}] >>

\* `pattern.sub("", result)`
pattern_sub(pattern, s) ==
    join(CASE pattern.re = "paired" ->
                 sub_paired(s, pattern.name, pattern.openers)
           [] pattern.re = "self" -> sub_self_closing(s, pattern.name)
           [] pattern.re = "tags" -> sub_tags(s, pattern.name))

RECURSIVE apply_patterns(_, _)
\* `for pattern in _PATTERNS: result = pattern.sub("", result)` from the
\* pattern at index k on.
apply_patterns(s, k) ==
    IF k > Len(PATTERNS) THEN s
    ELSE apply_patterns(pattern_sub(PATTERNS[k], s), k + 1)

RECURSIVE multi_blank_sub(_)
\* `_MULTI_BLANK.sub("\n\n", result)`: three or more line breaks in a row
\* become two.
multi_blank_sub(s) ==
    IF s = <<>> THEN s
    ELSE IF s[1] # LineBreak THEN <<s[1]>> \o multi_blank_sub(Tail(s))
    ELSE LET others == {i \in DOMAIN s : s[i] # LineBreak}
             n == IF others = {} THEN Len(s) ELSE MinOf(others) - 1
         IN  (IF n >= 3 THEN <<LineBreak, LineBreak>> ELSE SubSeq(s, 1, n))
                \o multi_blank_sub(From(s, n + 1))

\* str.strip(): the white space at both ends goes.
strip(s) ==
    LET others == {i \in DOMAIN s : s[i] # LineBreak}
    IN  IF others = {} THEN <<>>
        ELSE SubSeq(s, MinOf(others),
                    CHOOSE i \in others : \A j \in others : j <= i)

sanitize_response(content) ==
    IF content = <<>> THEN content
    ELSE strip(multi_blank_sub(apply_patterns(content, 1)))

\* The pieces of the texts of the model.
Pieces ==
    {Prose("a"), LineBreak, HalfLeft, HalfRight, Open("tool_call"),
     Close("tool_call"), SelfClosing("invoke"), Open("parameter"),
     Close("parameter"), Open("tool_result"), Close("tool_result")}

\* Every text of at most MaxPieces pieces.
ShortTexts ==
    {s \in UNION {[1..n -> Pieces] : n \in 0..MaxPieces} : join(s) = s}

BlockTags ==
    {"tool_call", "function_calls", "invoke", "parameter", "tool_result"}
\* Prose p, a block, prose q: the block is empty, holds the word x, or
\* holds a block with the word y in it and then the word x.
WellFormedTexts ==
    {<<Prose("p"), Open(t), Close(t), Prose("q")>> : t \in BlockTags}
    \cup {<<Prose("p"), Open(t), Prose("x"), Close(t), Prose("q")>> :
             t \in BlockTags}
    \cup {<<Prose("p"), Open(tu[1]), Open(tu[2]), Prose("y"), Close(tu[2]),
            Prose("x"), Close(tu[1]), Prose("q")>> :
             tu \in BlockTags \X BlockTags}

SanIdle ==
    /\ s_pc = "start"
    /\ s_in = <<>>
    /\ s_once = <<>>
    /\ s_twice = <<>>

\* sanitize_response is about to be called on any text.
SanInit ==
    /\ s_pc = "start"
    /\ s_in \in ShortTexts \cup WellFormedTexts
    /\ s_once = <<>>
    /\ s_twice = <<>>

\* sanitize_response(content) returns.
sanitize_call ==
    /\ s_pc = "start"
    /\ s_once' = sanitize_response(s_in)
    /\ s_pc' = "once"
    /\ UNCHANGED <<s_in, s_twice>>

\* sanitize_response returns for its own result.
sanitize_again ==
    /\ s_pc = "once"
    /\ s_twice' = sanitize_response(s_once)
    /\ s_pc' = "twice"
    /\ UNCHANGED <<s_in, s_once>>

(***************************************************************************)
(* VizAgent (backend/agents/viz_agent.py) and what chat_message            *)
(* (backend/api/routes.py) does with the visualization.  A tool result is  *)
(* the record of what _infer_chart_from_data reads in it.                  *)
(***************************************************************************)
\* A tool result: `success`; `chart_hint` ("" when absent); `trajectory`
\* ("missing": no such key, "None", "empty": empty lists, "full"); whether
\* `depths` and `values` are both non-empty; `comparisons` ("none": absent
\* or empty, "no_mean": no entry has statistics with a mean, "mean");
\* whether `sample_locations` and `values_sample` are both non-empty;
\* whether `statistics` has a mean that is not None.
ToolResult(success, chart_hint, trajectory, depth, compared, samples, mean) ==
    [success |-> success, chart_hint |-> chart_hint,
     trajectory |-> trajectory, depth |-> depth,
     comparisons |-> compared, samples |-> samples, mean |-> mean]

\* The results the tools return: a failure; get_float_trajectory with the
\* trajectory extract_trajectory gave (None when the dataset lacks
\* LATITUDE, LONGITUDE or TIME); query_by_profile; compare_floats;
\* query_ocean_data; query_by_float_id; a success with none of these fields.
ResultShapes ==
    {ToolResult(FALSE, "", "missing", FALSE, "none", FALSE, FALSE)}
    \cup {ToolResult(TRUE, "trajectory_map", t, FALSE, "none", FALSE, FALSE) :
             t \in {"None", "empty", "full"}}
    \cup {ToolResult(TRUE, "depth_profile", "missing", d, "none", FALSE,
                     FALSE) : d \in BOOLEAN}
    \cup {ToolResult(TRUE, "bar_chart", "missing", FALSE, c, FALSE, FALSE) :
             c \in {"no_mean", "mean"}}
    \cup {ToolResult(TRUE, "", "missing", FALSE, "none", sm[1], sm[2]) :
             sm \in {<<TRUE, TRUE>>, <<FALSE, TRUE>>, <<FALSE, FALSE>>}}
    \cup {ToolResult(TRUE, "", "full", FALSE, "none", FALSE, m) :
             m \in BOOLEAN}

ToolResultLists == UNION {[1..n -> ResultShapes] : n \in 0..MaxResults}

\* A visualization value: the kind of JSON value it is, its truth value in
\* Python, its chart_type ("" when it has none) and whether it has a
\* plotly_json that is true in Python.
VizValue(json, truthy, chart_type, plotly_json) ==
    [json |-> json, truthy |-> truthy, chart_type |-> chart_type,
     plotly_json |-> plotly_json]
\* What the generate_* builders return.
Chart(chart_type) == VizValue("object", TRUE, chart_type, TRUE)
\* The dict of the `except` branch of run.
NoChart == VizValue("object", TRUE, "none", FALSE)
\* `"visualization": {}` of the initial state, and Python's None.
EmptyDict == VizValue("object", FALSE, "", FALSE)
NoneViz == VizValue("null", FALSE, "", FALSE)

\* One pass of the loop of _infer_chart_from_data: the chart_type of the
\* chart it returns, "continue", or the AttributeError of `traj.get` when
\* `result.get("trajectory", {})` is None.
chart_of(result) ==
    IF ~result.success THEN "continue"
    ELSE IF result.chart_hint = "trajectory_map" /\ result.trajectory = "None"
    THEN "AttributeError"
    ELSE IF result.chart_hint = "trajectory_map" /\ result.trajectory = "full"
    THEN "trajectory_map"
    ELSE IF result.chart_hint = "depth_profile" /\ result.depth
    THEN "depth_profile"
    ELSE IF result.chart_hint = "bar_chart" /\ result.comparisons = "mean"
    THEN "bar_chart"
    ELSE IF result.samples THEN "scatter_map"
    ELSE IF result.mean THEN "bar_chart"
    ELSE "continue"

RECURSIVE infer_chart_from_data(_, _)
\* _infer_chart_from_data from the result at index i on: "None" when the
\* loop ends without a chart.
infer_chart_from_data(results, i) ==
    IF i > Len(results) THEN "None"
    ELSE LET c == chart_of(results[i])
         IN  IF c = "continue" THEN infer_chart_from_data(results, i + 1)
             ELSE c

\* What the language model may answer: a chart specification; the same in
\* a Markdown fence; prose; a content that is a list of blocks, not a str;
\* JSON that is an object without plotly_json, an object with plotly_json
\* and no chart_type, the empty object, a list, the empty list, a number,
\* null.
LLMContents ==
    {"chart_json", "fenced_chart_json", "prose", "content_blocks",
     "error_object", "bare_plotly_object", "empty_object", "list",
     "empty_list", "number", "null"}

\* json.loads(response.content): the value, or the exception raised.
json_loads(content) ==
    CASE content = "chart_json" ->
            [raised |-> "", value |-> Chart("time_series")]
      [] content \in {"fenced_chart_json", "prose"} ->
            [raised |-> "JSONDecodeError", value |-> NoneViz]
      [] content = "content_blocks" ->
            [raised |-> "TypeError", value |-> NoneViz]
      [] content = "error_object" ->
            [raised |-> "", value |-> VizValue("object", TRUE, "", FALSE)]
      [] content = "bare_plotly_object" ->
            [raised |-> "", value |-> VizValue("object", TRUE, "", TRUE)]
      [] content = "empty_object" -> [raised |-> "", value |-> EmptyDict]
      [] content = "list" ->
            [raised |-> "", value |-> VizValue("list", TRUE, "", FALSE)]
      [] content = "empty_list" ->
            [raised |-> "", value |-> VizValue("list", FALSE, "", FALSE)]
      [] content = "number" ->
            [raised |-> "", value |-> VizValue("number", TRUE, "", FALSE)]
      [] content = "null" -> [raised |-> "", value |-> NoneViz]

\* What the last message of the graph may hold: nothing, prose, prose
\* around a tool-call block, a tag alone.
FinalContents ==
    { <<>>, <<Prose("a")>>,
      <<Prose("p"), Open("tool_call"), Prose("x"), Close("tool_call"),
        Prose("q")>>,
      <<Prose("a"), Close("invoke")>> }

\* The answer of an endpoint: which endpoint; whether it failed (HTTP 500
\* of chat_message, the error event of chat_stream); the content returned
\* or streamed; the visualization returned or sent (NoneViz when none).
NoResponse ==
    [endpoint |-> "", failed |-> FALSE, content |-> <<>>,
     visualization |-> NoneViz]
Response(endpoint, failed, content, visualization) ==
    [endpoint |-> endpoint, failed |-> failed, content |-> content,
     visualization |-> visualization]

\* The assistant message of the session store.
NotStored == [stored |-> FALSE, content |-> <<>>, visualization |-> NoneViz]
Stored(content, visualization) ==
    [stored |-> TRUE, content |-> content, visualization |-> visualization]

\* No run of the viz agent under way.
VizIdle ==
    /\ v_pc = "start"
    /\ v_results = <<>>
    /\ v_llm_calls = 0
    /\ v_content = ""
    /\ v_viz = EmptyDict
    /\ v_final = <<>>
    /\ v_response = NoResponse
    /\ v_stored = NotStored

\* A request whose query agent has left any list of tool results.
VizInit ==
    /\ v_pc = "start"
    /\ v_results \in ToolResultLists
    /\ v_llm_calls = 0
    /\ v_content = ""
    /\ v_viz = EmptyDict
    /\ v_final \in FinalContents
    /\ v_response = NoResponse
    /\ v_stored = NotStored

\* run up to its call of the language model.
viz_run_infer ==
    /\ v_pc = "start"
    /\ LET chart == infer_chart_from_data(v_results, 1)
       IN  IF chart = "AttributeError"
           THEN v_pc' = "raised" /\ UNCHANGED v_viz
           ELSE IF chart = "None"
           THEN v_pc' = "llm" /\ UNCHANGED v_viz
           ELSE v_pc' = "returned" /\ v_viz' = Chart(chart)
    /\ UNCHANGED <<v_results, v_llm_calls, v_content, v_final, v_response,
                   v_stored>>

\* The fallback of run: `await self._llm.ainvoke(...)`, json.loads, and the
\* `except (json.JSONDecodeError, TypeError)` branch.
viz_run_llm ==
    /\ v_pc = "llm"
    /\ \E content \in LLMContents :
          /\ v_content' = content
          /\ LET viz == json_loads(content)
             IN  v_viz' = IF viz.raised = "" THEN viz.value ELSE NoChart
    /\ v_llm_calls' = v_llm_calls + 1
    /\ v_pc' = "returned"
    /\ UNCHANGED <<v_results, v_final, v_response, v_stored>>

\* chat_message after `_graph.ainvoke`: an exception of the graph becomes
\* HTTP 500; `visualization.get` raises on a true value that is no dict; a
\* dict without plotly_json becomes None; Message and ChatResponse
\* (visualization: dict | None) reject every other value that is no dict.
\* The content of the last message is stored and returned as it is.
chat_message_respond ==
    /\ v_pc \in {"returned", "raised"}
    /\ LET content == v_final
           fails ==
              \/ v_pc = "raised"
              \/ v_viz.truthy /\ v_viz.json # "object"
              \/ ~v_viz.truthy /\ v_viz.json \notin {"object", "null"}
           visualization ==
              IF v_viz.truthy /\ ~v_viz.plotly_json THEN NoneViz ELSE v_viz
       IN  IF fails
           THEN /\ v_response' = Response("message", TRUE, <<>>, NoneViz)
                /\ v_stored' = NotStored
           ELSE /\ v_response' =
                      Response("message", FALSE, content, visualization)
                /\ v_stored' = Stored(content, visualization)
    /\ v_pc' = "end"
    /\ UNCHANGED <<v_results, v_llm_calls, v_content, v_viz, v_final>>

\* event_generator of chat_stream after `_graph.ainvoke`: every exception
\* ends the stream with an error event.  The content is sent in chunks as
\* it is (before the visualization is looked at); the visualization is sent
\* when it has a plotly_json, and stored as run returned it.
chat_stream_respond ==
    /\ v_pc \in {"returned", "raised"}
    /\ LET content == v_final
           streamed == IF v_pc = "raised" THEN <<>> ELSE content
           fails ==
              \/ v_pc = "raised"
              \/ v_viz.truthy /\ v_viz.json # "object"
              \/ ~v_viz.truthy /\ v_viz.json \notin {"object", "null"}
           sent == IF v_viz.truthy /\ v_viz.plotly_json THEN v_viz
                   ELSE NoneViz
       IN  IF fails
           THEN /\ v_response' = Response("stream", TRUE, streamed, NoneViz)
                /\ v_stored' = NotStored
           ELSE /\ v_response' = Response("stream", FALSE, streamed, sent)
                /\ v_stored' = Stored(content, v_viz)
    /\ v_pc' = "end"
    /\ UNCHANGED <<v_results, v_llm_calls, v_content, v_viz, v_final>>

(***************************************************************************)
(* What the region tools ask of the data layer (argo_tools.py,             *)
(* float_tools.py, geo_tools.py).  Latitudes and longitudes are whole      *)
(* degrees; radius_km is a multiple of 111 km, so that lat_delta is a      *)
(* whole number of degrees.  The tools' modules hold a data manager and a  *)
(* loader here (set_manager, set_loader); how a manager comes to be is the *)
(* section on the lazily constructed manager.                              *)
(***************************************************************************)
\* The arguments of the model.  The tools' signatures take any float.
LatInputs == {-91, -90, 0, 90}
LonInputs == {-180, 0, 180, 181}
DateInputs == {None, "2020-01-01", "2023-12-31"}
PointLats == {-90, -60, 0, 60, 90, 120}
PointLons == {-180, 0, 179, 180}
Radii == 0..MaxRadius

\* 1000 * np.cos(np.radians(lat)) at the latitudes of PointLats.
cos_permille(lat) ==
    CASE lat = 0 -> 1000
      [] lat \in {-60, 60} -> 500
      [] lat \in {-90, 90} -> 0
      [] lat = 120 -> -500

max(a, b) == IF a >= b THEN a ELSE b
min(a, b) == IF a <= b THEN a ELSE b

\* `lat_delta = radius_km / 111.0`
lat_delta(radius) == radius
\* `lon_delta = radius_km / (111.0 * max(np.cos(np.radians(lat)), 0.01))`
lon_delta(radius, lat) == (radius * 1000) \div max(cos_permille(lat), 10)

RegionArgs(t, variable, lat_min, lat_max, lon_min, lon_max, sd, ed) ==
    [tool |-> t, variable |-> variable, lat_min |-> lat_min,
     lat_max |-> lat_max, lon_min |-> lon_min, lon_max |-> lon_max,
     start_date |-> sd, end_date |-> ed, lat |-> 0, lon |-> 0, radius |-> 0]
PointArgs(lat, lon, radius) ==
    [tool |-> "get_nearest_profiles", variable |-> None, lat_min |-> 0,
     lat_max |-> 0, lon_min |-> 0, lon_max |-> 0, start_date |-> None,
     end_date |-> None, lat |-> lat, lon |-> lon, radius |-> radius]
NoArgs == RegionArgs("none", None, 0, 0, 0, 0, None, None)

\* A call of the data layer: manager.get_data(...) or
\* loader.fetch_region(lat_bounds, lon_bounds) (time_range defaults to None).
Request(method, lat_min, lat_max, lon_min, lon_max, sd, ed) ==
    [method |-> method, lat_min |-> lat_min, lat_max |-> lat_max,
     lon_min |-> lon_min, lon_max |-> lon_max, start_date |-> sd,
     end_date |-> ed]
NoRequest == Request("none", 0, 0, 0, 0, None, None)

\* `OCEAN_BASINS` (loader.py)
Bounds(lat_min, lat_max, lon_min, lon_max) ==
    [lat_min |-> lat_min, lat_max |-> lat_max, lon_min |-> lon_min,
     lon_max |-> lon_max]
OCEAN_BASINS ==
    [b \in {"atlantic", "pacific", "indian", "southern", "arctic",
            "mediterranean", "north_atlantic", "south_atlantic",
            "north_pacific", "south_pacific"} |->
        CASE b = "atlantic" -> Bounds(-60, 60, -80, 0)
          [] b = "pacific" -> Bounds(-60, 60, 100, -100)
          [] b = "indian" -> Bounds(-60, 30, 20, 120)
          [] b = "southern" -> Bounds(-90, -60, -180, 180)
          [] b = "arctic" -> Bounds(60, 90, -180, 180)
          [] b = "mediterranean" -> Bounds(30, 46, -6, 36)
          [] b = "north_atlantic" -> Bounds(20, 60, -80, 0)
          [] b = "south_atlantic" -> Bounds(-60, 0, -70, 20)
          [] b = "north_pacific" -> Bounds(20, 60, 100, -100)
          [] b = "south_pacific" -> Bounds(-60, 0, 150, -70)]

\* The basin names QUERY_SYSTEM_PROMPT tells the model to use: rule 3 of
\* its performance rules and its example workflows.
PromptBasins ==
    {"north_atlantic", "tropical_atlantic", "atlantic", "tropical_pacific",
     "pacific", "tropical_indian", "gulf_of_mexico", "caribbean", "red_sea",
     "north_pacific", "mediterranean"}

\* The arguments of the model: the names of the prompt and of the registry,
\* names as a user writes them, and a name nobody knows.
AsWritten == {"Atlantic", "north atlantic", " pacific ", "Red Sea"}
BasinInputs == PromptBasins \cup DOMAIN OCEAN_BASINS \cup AsWritten \cup {"atlantis"}

\* `basin.lower().strip().replace(" ", "_")`
basin_key(basin) ==
    CASE basin = "Atlantic" -> "atlantic"
      [] basin = "north atlantic" -> "north_atlantic"
      [] basin = " pacific " -> "pacific"
      [] basin = "Red Sea" -> "red_sea"
      [] OTHER -> basin

NoBounds == Bounds(0, 0, 0, 0)
BasinOut(success, basin, bounds, error) ==
    [success |-> success, basin |-> basin, bounds |-> bounds,
     error |-> error, returned |-> TRUE]
NoBasinOut ==
    [success |-> FALSE, basin |-> "", bounds |-> NoBounds, error |-> "",
     returned |-> FALSE]

\* ocean_basin_bounds(basin) returns.
ocean_basin_bounds_call ==
    /\ rq_pc = "idle"
    /\ \E basin \in BasinInputs :
          /\ b_basin' = basin
          /\ b_out' = IF basin_key(basin) \notin DOMAIN OCEAN_BASINS
                      THEN BasinOut(FALSE, "", NoBounds, "Unknown basin")
                      ELSE BasinOut(TRUE, basin_key(basin),
                                    OCEAN_BASINS[basin_key(basin)], "")
    /\ rq_pc' = "returned"
    /\ UNCHANGED <<rq_args, rq_sent>>

ReqIdle ==
    /\ rq_pc = "idle"
    /\ rq_args = NoArgs
    /\ rq_sent = NoRequest
    /\ b_basin = ""
    /\ b_out = NoBasinOut

\* query_ocean_data up to its call of manager.get_data.  (An invocation
\* keeps nothing from the one before it: one invocation from the idle
\* state stands for every invocation.)
query_ocean_data_call ==
    /\ rq_pc = "idle"
    /\ \E variable \in Variables, lat_min \in LatInputs, lat_max \in LatInputs,
       lon_min \in LonInputs, lon_max \in LonInputs,
       start_date \in DateInputs, end_date \in DateInputs :
       /\ rq_args' = RegionArgs("query_ocean_data", variable, lat_min,
                                lat_max, lon_min, lon_max, start_date,
                                end_date)
       /\ IF upper(variable) \notin valid_vars
          THEN /\ rq_pc' = "rejected"
               /\ rq_sent' = NoRequest
          ELSE /\ rq_pc' = "sent"
               /\ rq_sent' = Request("get_data", lat_min, lat_max, lon_min,
                                     lon_max, start_date, end_date)
    /\ UNCHANGED <<b_basin, b_out>>

\* get_floats_in_region up to its call of manager.get_data.
get_floats_in_region_call ==
    /\ rq_pc = "idle"
    /\ \E lat_min \in LatInputs, lat_max \in LatInputs, lon_min \in LonInputs,
       lon_max \in LonInputs, start_date \in DateInputs,
       end_date \in DateInputs :
       /\ rq_args' = RegionArgs("get_floats_in_region", None, lat_min,
                                lat_max, lon_min, lon_max, start_date,
                                end_date)
       /\ rq_pc' = "sent"
       /\ rq_sent' = Request("get_data", lat_min, lat_max, lon_min, lon_max,
                             start_date, end_date)
    /\ UNCHANGED <<b_basin, b_out>>

\* get_nearest_profiles up to its call of loader.fetch_region.
get_nearest_profiles_call ==
    /\ rq_pc = "idle"
    /\ \E lat \in PointLats, lon \in PointLons, radius \in Radii :
       /\ rq_args' = PointArgs(lat, lon, radius)
       /\ rq_pc' = "sent"
       /\ rq_sent' = Request("fetch_region",
                             max(-90, lat - lat_delta(radius)),
                             min(90, lat + lat_delta(radius)),
                             lon - lon_delta(radius, lat),
                             lon + lon_delta(radius, lat), None, None)
    /\ UNCHANGED <<b_basin, b_out>>

(***************************************************************************)
(* Concurrent chat_message requests on the session store (routes.py,       *)
(* session.py).  chat_message is a coroutine: it runs without interruption *)
(* up to `await _graph.ainvoke(state)`, where the event loop may run other *)
(* requests, and again without interruption from the return of the graph   *)
(* to its response.  ChatRequest.session_id is a required string.          *)
(***************************************************************************)
Requests == 1..MaxRequests
SessionIds == {"a", "b"}

\* A stored Message: its role and the request that stored it.
StoredMessage(role, r) == [role |-> role, request |-> r]

\* SessionStore.get_or_create_session followed by SessionStore.add_message.
add_message(held, sid, role, r) ==
    IF sid \in DOMAIN held
    THEN [held EXCEPT ![sid] = Append(@, StoredMessage(role, r))]
    ELSE [k \in DOMAIN held \cup {sid} |->
            IF k = sid THEN <<StoredMessage(role, r)>> ELSE held[k]]

SessIdle ==
    /\ h_pc = [r \in Requests |-> "new"]
    /\ h_session = [r \in Requests |-> ""]
    /\ sessions = <<>>

\* chat_message with an empty message: HTTP 400, nothing stored.
chat_message_reject(r) ==
    /\ h_pc[r] = "new"
    /\ h_pc' = [h_pc EXCEPT ![r] = "rejected"]
    /\ UNCHANGED <<h_session, sessions>>

\* chat_message up to the await: the session is found or created and the
\* user message stored.
chat_message_begin(r) ==
    /\ h_pc[r] = "new"
    /\ \E sid \in SessionIds :
          /\ h_session' = [h_session EXCEPT ![r] = sid]
          /\ sessions' = add_message(sessions, sid, "user", r)
    /\ h_pc' = [h_pc EXCEPT ![r] = "invoking"]

\* The graph raised: HTTP 500, no assistant message.
chat_message_fail(r) ==
    /\ h_pc[r] = "invoking"
    /\ h_pc' = [h_pc EXCEPT ![r] = "failed"]
    /\ UNCHANGED <<h_session, sessions>>

\* The graph returned: the assistant message is stored and the response
\* made.
chat_message_end(r) ==
    /\ h_pc[r] = "invoking"
    /\ sessions' = add_message(sessions, h_session[r], "assistant", r)
    /\ h_pc' = [h_pc EXCEPT ![r] = "done"]
    /\ UNCHANGED h_session

(***************************************************************************)
(* Concurrent calls of get_data / get_data_by_float with the same          *)
(* parameters, hence the same cache file (argo_manager.py).  The tools are *)
(* synchronous functions that the agent runs through `ainvoke`, on worker  *)
(* threads, so calls of different requests overlap.  The steps are the     *)
(* file-system operations of a call; the fetch itself and write errors are *)
(* those of the fetch/cache layer above.                                   *)
(***************************************************************************)
Threads == 1..MaxThreads

ConcIdle ==
    /\ k_pc = [t \in Threads |-> "idle"]
    /\ k_file = "absent"
    /\ k_writers = {}
    /\ k_shared = FALSE
    /\ k_read = [t \in Threads |-> "none"]

\* A thread enters get_data.
k_get_data_call(t) ==
    /\ k_pc[t] = "idle"
    /\ k_pc' = [k_pc EXCEPT ![t] = "check"]
    /\ UNCHANGED <<k_file, k_writers, k_shared, k_read>>

\* `if cached.exists(): ds = xr.open_dataset(cached); return ds`: the file
\* is opened in the state it is in.
k_cache_check(t) ==
    /\ k_pc[t] = "check"
    /\ IF k_file # "absent"
       THEN /\ k_read' = [k_read EXCEPT ![t] = k_file]
            /\ k_pc' = [k_pc EXCEPT ![t] = "done"]
       ELSE /\ k_pc' = [k_pc EXCEPT ![t] = "fetch"]
            /\ UNCHANGED k_read
    /\ UNCHANGED <<k_file, k_writers, k_shared>>

\* The remote fetch and the QC filter: a dataset, or None from every source
\* (`return None`).
k_fetch(t) ==
    /\ k_pc[t] = "fetch"
    /\ \E got \in BOOLEAN :
          k_pc' = [k_pc EXCEPT ![t] = IF got THEN "write" ELSE "done"]
    /\ UNCHANGED <<k_file, k_writers, k_shared, k_read>>

\* `ds.to_netcdf(cached)` creates or truncates the file.  With another
\* thread writing the same path the open may also be refused (the
\* exception is logged and ds returned).
k_write_begin(t) ==
    /\ k_pc[t] = "write"
    /\ \/ /\ k_file' = "partial"
          /\ k_writers' = k_writers \cup {t}
          /\ k_shared' = (k_shared \/ k_writers # {})
          /\ k_pc' = [k_pc EXCEPT ![t] = "writing"]
       \/ /\ k_writers # {}
          /\ k_pc' = [k_pc EXCEPT ![t] = "done"]
          /\ UNCHANGED <<k_file, k_writers, k_shared>>
    /\ UNCHANGED k_read

\* to_netcdf finishes.  The file is complete when this thread wrote it
\* alone; two writers of one path leave a complete or a corrupt file.
k_write_end(t) ==
    /\ k_pc[t] = "writing"
    /\ k_writers' = k_writers \ {t}
    /\ IF k_writers' # {}
       THEN k_file' = "partial" /\ UNCHANGED k_shared
       ELSE /\ k_shared' = FALSE
            /\ IF k_shared
               THEN k_file' \in {"complete", "corrupt"}
               ELSE k_file' = "complete"
    /\ k_pc' = [k_pc EXCEPT ![t] = "done"]
    /\ UNCHANGED k_read

\* The call has returned; the thread is free for the next call.
k_return(t) ==
    /\ k_pc[t] = "done"
    /\ k_pc' = [k_pc EXCEPT ![t] = "idle"]
    /\ k_read' = [k_read EXCEPT ![t] = "none"]
    /\ UNCHANGED <<k_file, k_writers, k_shared>>

(***************************************************************************)
(* The lazily constructed data manager (argo_tools.py, float_tools.py,     *)
(* argo_manager.py, config.py).                                            *)
(***************************************************************************)
\* The fields of `Settings`.
SettingsFields ==
    {"anthropic_api_key", "anthropic_model", "project_root", "data_dir",
     "sample_data_dir", "embeddings_dir", "argo_cache_dir",
     "argo_fetch_timeout", "chroma_collection_name", "api_host", "api_port",
     "cors_origins", "rate_limit_per_minute", "rag_top_k",
     "rag_min_relevance"}

\* ArgoDataManager.__init__(cache_dir): "" when the instance is made, else
\* the exception.  With cache_dir None it reads
\* settings.argo_manager_cache_dir, which raises AttributeError for a name
\* that is no field of Settings (extra environment values are ignored).
ArgoDataManager_init(cache_dir) ==
    IF cache_dir = None /\ "argo_manager_cache_dir" \notin SettingsFields
    THEN "AttributeError"
    ELSE ""

ManagerModules == {"argo_tools", "float_tools"}
ManagerTools == DataTools \ {"get_nearest_profiles"}
module_of(name) ==
    IF name = "query_ocean_data" THEN "argo_tools" ELSE "float_tools"

\* An ArgoDataManager instance, known by its serial number, and the value
\* None of `_manager`.
Instance(n) == [serial |-> n]
NoManager == Instance(0)

\* One call of _get_manager: the tool that made it, how many times
\* set_manager had been called on its module, the exception that left it
\* ("" when it returned) and the instance it returned.
ManagerCall(name, sets, raised, instance) ==
    [tool |-> name, module |-> module_of(name), sets |-> sets,
     raised |-> raised, instance |-> instance]

\* The process after import: `_manager = None` in both modules.
LazyIdle ==
    /\ g_manager = [m \in ManagerModules |-> NoManager]
    /\ g_serial = 0
    /\ g_sets = [m \in ManagerModules |-> 0]
    /\ g_log = <<>>

\* set_manager(manager), which the tests call with a manager built on a
\* directory of their own; the application never calls it.
set_manager(m) ==
    /\ g_serial < MaxManagerCalls
    /\ ArgoDataManager_init("tmp_path") = ""
    /\ g_serial' = g_serial + 1
    /\ g_manager' = [g_manager EXCEPT ![m] = Instance(g_serial + 1)]
    /\ g_sets' = [g_sets EXCEPT ![m] = @ + 1]
    /\ UNCHANGED g_log

\* A tool runs `manager = _get_manager()` inside its try block: the manager
\* the module holds, or a new ArgoDataManager() that the module then holds,
\* or the exception of the constructor, which the tool's handler turns into
\* its failure result.
tool_get_manager(name) ==
    /\ Len(g_log) < MaxManagerCalls
    /\ LET m == module_of(name)
       IN  IF g_manager[m] # NoManager
           THEN /\ g_log' = Append(g_log,
                       ManagerCall(name, g_sets[m], "", g_manager[m]))
                /\ UNCHANGED <<g_manager, g_serial>>
           ELSE IF ArgoDataManager_init(None) = ""
           THEN /\ g_serial' = g_serial + 1
                /\ g_manager' = [g_manager EXCEPT ![m] = Instance(g_serial + 1)]
                /\ g_log' = Append(g_log,
                       ManagerCall(name, g_sets[m], "",
                                   Instance(g_serial + 1)))
           ELSE /\ g_log' = Append(g_log,
                       ManagerCall(name, g_sets[m],
                                   ArgoDataManager_init(None), NoManager))
                /\ UNCHANGED <<g_manager, g_serial>>
    /\ UNCHANGED g_sets

(***************************************************************************)
(* RateLimitMiddleware (backend/api/middleware.py).  dispatch has no await *)
(* between reading the clock and appending the timestamp, so this part of  *)
(* it is one step; the clock never goes back.                              *)
(***************************************************************************)
\* `self._window = 60.0`
window == 60
\* The time that passes between two requests reaching dispatch.
TimeSteps == {0, 30, 60}
ClientIps == {"10.0.0.1", "unknown"}
Paths == {"/api/v1/chat/message", "/health"}
\* `request.url.path.startswith("/api/")`
is_api(path) == path = "/api/v1/chat/message"

\* mutant: a timestamp exactly one window old is kept
clean_old_requests_keeps_cutoff(ts, now) ==
    SelectSeq(ts, LAMBDA t : t >= now - window)

\* _clean_old_requests: the timestamps with `t > cutoff`.
clean_old_requests(ts, now) ==
    SelectSeq(ts, LAMBDA t : t > now - window)

\* One dispatched request: status 429, or "forwarded" to call_next.
Dispatched(ip, path, time, status) ==
    [ip |-> ip, path |-> path, time |-> time, status |-> status]

LimIdle ==
    /\ l_limit = -1
    /\ l_now = 0
    /\ l_requests = [ip \in ClientIps |-> <<>>]
    /\ l_log = <<>>

\* app.add_middleware(RateLimitMiddleware, requests_per_minute=...)
middleware_init ==
    /\ l_limit = -1
    /\ \E requests_per_minute \in 0..MaxLimit : l_limit' = requests_per_minute
    /\ UNCHANGED <<l_now, l_requests, l_log>>

\* dispatch(request, call_next) up to the answer 429 or the call of
\* call_next.
dispatch ==
    /\ l_limit >= 0
    /\ Len(l_log) < MaxDispatches
    /\ \E dt \in TimeSteps, ip \in ClientIps, path \in Paths :
          LET now == l_now + dt
              kept == clean_old_requests(l_requests[ip], now)
              remaining == l_limit - Len(kept)
          IN  /\ l_now' = now
              /\ IF ~is_api(path)
                 THEN /\ l_log' = Append(l_log,
                             Dispatched(ip, path, now, "forwarded"))
                      /\ UNCHANGED l_requests
                 ELSE IF remaining <= 0
                 THEN /\ l_requests' = [l_requests EXCEPT ![ip] = kept]
                      /\ l_log' = Append(l_log,
                             Dispatched(ip, path, now, "429"))
                 ELSE /\ l_requests' =
                             [l_requests EXCEPT ![ip] = Append(kept, now)]
                      /\ l_log' = Append(l_log,
                             Dispatched(ip, path, now, "forwarded"))
    /\ UNCHANGED l_limit

\* The subsystems below start idle in every specification.
RestIdle ==
    /\ ReqIdle
    /\ SessIdle
    /\ ConcIdle
    /\ LazyIdle
    /\ LimIdle

Init ==
    PipeInit /\ MgrIdle /\ ToolIdle /\ ClsIdle /\ VizIdle /\ SanIdle
    /\ RestIdle

Next ==
    \/ supervisor_node /\ UNCHANGED notPipe
    \/ rag_node /\ UNCHANGED notPipe
    \/ clarify_node /\ UNCHANGED notPipe
    \/ viz_node /\ UNCHANGED notPipe
    \/ query_node_call /\ UNCHANGED notPipe
    \/ run_llm_round /\ UNCHANGED notPipe
    \/ run_tool_call /\ UNCHANGED notPipe
    \/ run_summary /\ UNCHANGED notPipe
    \/ query_node_return /\ UNCHANGED notPipe

Spec == Init /\ [][Next]_vars

NextManager ==
    \/ get_data_call /\ UNCHANGED notMgr
    \/ cache_check /\ UNCHANGED notMgr
    \/ try_fetch /\ UNCHANGED notMgr
    \/ worker_finishes /\ UNCHANGED notMgr
    \/ fetch_timed_out /\ UNCHANGED notMgr
    \/ filter_step /\ UNCHANGED notMgr
    \/ cache_write_begin /\ UNCHANGED notMgr
    \/ cache_write_end /\ UNCHANGED notMgr

SpecManager == Init /\ [][NextManager]_vars

NextTools ==
    \/ tool_invoke /\ UNCHANGED notTool
    \/ data_call /\ UNCHANGED notTool
    \/ data_fetch /\ UNCHANGED notTool
    \/ tool_return /\ UNCHANGED notTool

SpecTools == Init /\ [][NextTools]_vars

NextClassify == classify_call /\ UNCHANGED notCls

InitClassify ==
    PipeInit /\ MgrIdle /\ ToolIdle /\ ClsInit /\ VizIdle /\ SanIdle
    /\ RestIdle

SpecClassify == InitClassify /\ [][NextClassify]_vars

NextViz ==
    \/ viz_run_infer /\ UNCHANGED notViz
    \/ viz_run_llm /\ UNCHANGED notViz
    \/ chat_message_respond /\ UNCHANGED notViz
    \/ chat_stream_respond /\ UNCHANGED notViz

InitViz ==
    PipeInit /\ MgrIdle /\ ToolIdle /\ ClsIdle /\ VizInit /\ SanIdle
    /\ RestIdle

SpecViz == InitViz /\ [][NextViz]_vars

NextSanitizer ==
    \/ sanitize_call /\ UNCHANGED notSan
    \/ sanitize_again /\ UNCHANGED notSan

InitSanitizer ==
    PipeInit /\ MgrIdle /\ ToolIdle /\ ClsIdle /\ VizIdle /\ SanInit
    /\ RestIdle

SpecSanitizer == InitSanitizer /\ [][NextSanitizer]_vars

NextRequests ==
    \/ query_ocean_data_call /\ UNCHANGED notReq
    \/ get_floats_in_region_call /\ UNCHANGED notReq
    \/ get_nearest_profiles_call /\ UNCHANGED notReq
    \/ ocean_basin_bounds_call /\ UNCHANGED notReq

SpecRequests == Init /\ [][NextRequests]_vars

NextSessions ==
    \/ \E r \in Requests : chat_message_reject(r) /\ UNCHANGED notSess
    \/ \E r \in Requests : chat_message_begin(r) /\ UNCHANGED notSess
    \/ \E r \in Requests : chat_message_fail(r) /\ UNCHANGED notSess
    \/ \E r \in Requests : chat_message_end(r) /\ UNCHANGED notSess

SpecSessions == Init /\ [][NextSessions]_vars

NextConcurrent ==
    \/ \E t \in Threads : k_get_data_call(t) /\ UNCHANGED notConc
    \/ \E t \in Threads : k_cache_check(t) /\ UNCHANGED notConc
    \/ \E t \in Threads : k_fetch(t) /\ UNCHANGED notConc
    \/ \E t \in Threads : k_write_begin(t) /\ UNCHANGED notConc
    \/ \E t \in Threads : k_write_end(t) /\ UNCHANGED notConc
    \/ \E t \in Threads : k_return(t) /\ UNCHANGED notConc

SpecConcurrent == Init /\ [][NextConcurrent]_vars

NextLazyManager ==
    \/ \E m \in ManagerModules : set_manager(m) /\ UNCHANGED notLazy
    \/ \E name \in ManagerTools : tool_get_manager(name) /\ UNCHANGED notLazy

SpecLazyManager == Init /\ [][NextLazyManager]_vars

NextRateLimit ==
    \/ middleware_init /\ UNCHANGED notLim
    \/ dispatch /\ UNCHANGED notLim

SpecRateLimit == Init /\ [][NextRateLimit]_vars

(***************************************************************************)
(* Claims about QueryAgent.run.                                            *)
(***************************************************************************)
ToolEnabledCalls == SelectSeq(llm_calls, LAMBDA c : c.tools)
SummaryCalls     == SelectSeq(llm_calls, LAMBDA c : ~c.tools)
RunReturned      == qpc = "returned"
RunActive        == qpc \in {"llm", "tools", "summary"}
ToolMessages(conv) == SelectSeq(conv, LAMBDA m : m.type = "tool")

\* A step of run.
RunStep == run_llm_round \/ run_tool_call \/ run_summary

\* C1: run makes at most 5 tool-enabled model calls, one round at a time, and
\* stops at the first response without tool calls, which it returns as its
\* only message; the tools-disabled summary call is made (once, last) exactly
\* when all 5 tool-enabled responses carried tool calls, so at most 6 model
\* calls are made; a model that never requests tools is called once and the
\* returned tool_results are empty; run is never stuck before it returns.
C1_LoopTerminates ==
    LET te == ToolEnabledCalls
        su == SummaryCalls
        allRequested == \A k \in DOMAIN te : te[k].response.tool_calls # <<>>
    IN  /\ Len(te) <= 5
        /\ Len(su) <= 1
        /\ Len(llm_calls) <= 6
        /\ iteration <= 5
        /\ \A k \in DOMAIN llm_calls :
              ~llm_calls[k].tools => k = Len(llm_calls) /\ k = 6
        /\ \A k \in DOMAIN te :
              k < Len(te) => te[k].response.tool_calls # <<>>
        /\ RunActive => ENABLED RunStep
        /\ RunReturned =>
              /\ Len(llm_calls) >= 1
              /\ Len(su) = 1 <=> (Len(te) = 5 /\ allRequested)
              /\ out_messages = <<llm_calls[Len(llm_calls)].response>>
              /\ out_messages[1].tool_calls = <<>>
              /\ ~allRequested => out_messages = <<te[Len(te)].response>>
              /\ te[1].response.tool_calls = <<>> =>
                    /\ Len(llm_calls) = 1
                    /\ all_tool_results = <<>>
                    /\ executed = <<>>

\* C1 witnesses: a run that returned at its first response, and (below, C2) a
\* run that returned through the summary call.
C1_Witness ==
    /\ RunReturned
    /\ Len(llm_calls) = 1
    /\ llm_calls[1].tools
    /\ all_tool_results = <<>>

OneRegisteredTool(c) ==
    /\ Len(c.response.tool_calls) = 1
    /\ c.response.tool_calls[1].name \in tool_map

AlwaysOneTool ==
    \A k \in DOMAIN ToolEnabledCalls : OneRegisteredTool(ToolEnabledCalls[k])

\* C2: when every tool-enabled response requests exactly one registered tool,
\* the returned run has executed exactly 5 tools, one per round, and then
\* made exactly one model call, with tools disabled, on the conversation
\* that ends with the fifth round's tool result; that call's response is the
\* only message returned and nothing is executed after it.
C2_MaxIterationsSummary ==
    (qpc \in {"returned", "done"} /\ AlwaysOneTool) =>
        LET last == llm_calls[Len(llm_calls)]
        IN  /\ Len(executed) = 5
            /\ \A r \in 0..4 :
                  Cardinality({k \in DOMAIN executed : executed[k].round = r}) = 1
            /\ Len(ToolEnabledCalls) = 5
            /\ Len(SummaryCalls) = 1
            /\ ~last.tools
            /\ Len(ToolMessages(last.input)) = 5
            /\ last.input[Len(last.input)] =
                  ToolMessage(executed[5].result, <<4, 1>>)
            /\ executed[5].round = 4
            /\ last.input = conversation
            /\ RunReturned => out_messages = <<last.response>>

C2_Witness ==
    /\ RunReturned
    /\ AlwaysOneTool
    /\ Len(executed) = 5
    /\ Len(SummaryCalls) = 1

NextRunPc(rest, it) ==
    IF rest # <<>> THEN "tools"
    ELSE IF it + 1 < 5 THEN "llm" ELSE "summary"

\* C3: a step in which a tool raises leaves run running: the exception
\* becomes {success: false, error: message}, is stored in tool_results under
\* (tool name, round index), is appended to the conversation as the tool
\* message of that invocation, and run goes on to the next invocation of the
\* round, or to the next round, as after any other invocation.
C3_ExceptionStep ==
    /\ qpc' # "raised"
    /\ (/\ Len(executed') = Len(executed) + 1
        /\ executed'[Len(executed')].outcome = "raise") =>
          LET e == executed'[Len(executed')]
          IN  /\ e.call = Head(pending)
              /\ e.round = iteration
              /\ e.result = [success |-> FALSE, error |-> "str(e)"]
              /\ <<e.call.name, iteration>> \in DOMAIN all_tool_results'
              /\ all_tool_results'[<<e.call.name, iteration>>] = e.result
              /\ conversation' =
                    Append(conversation, ToolMessage(e.result, e.call.id))
              /\ pending' = Tail(pending)
              /\ qpc' = NextRunPc(pending', iteration)
              /\ node' = node

C3_ToolExceptionContained == [][C3_ExceptionStep]_vars

\* C3 witness: a tool raised, a later invocation of the same round and one of
\* a following round were still executed, and run returned.
C3_Witness ==
    /\ RunReturned
    /\ \E i, j, k \in DOMAIN executed :
          /\ i < j /\ j < k
          /\ executed[i].outcome = "raise"
          /\ executed[j].round = executed[i].round
          /\ executed[k].round > executed[i].round

\* C4: when run has returned, tool_results has one entry per executed
\* invocation.
C4_AllResultsKept ==
    RunReturned => Cardinality(DOMAIN all_tool_results) = Len(executed)

\* C5: a step that handles an invocation of an unregistered tool executes no
\* tool and leaves run running: the error naming the tool is appended to the
\* conversation as the tool message of that invocation, and run goes on to
\* the next invocation of the round, or to the next round, as after any
\* other invocation.
C5_UnknownStep ==
    /\ qpc' # "raised"
    /\ (qpc = "tools" /\ Head(pending).name \notin tool_map) =>
          LET tc == Head(pending)
          IN  /\ executed' = executed
              /\ all_tool_results' = all_tool_results
              /\ conversation' = Append(conversation,
                    ToolMessage([error |-> <<"Unknown tool: ", tc.name>>],
                                tc.id))
              /\ pending' = Tail(pending)
              /\ qpc' = NextRunPc(pending', iteration)
              /\ node' = node

C5_UnknownToolContained == [][C5_UnknownStep]_vars

IsUnknownMessage(m) ==
    m.type = "tool" /\ "success" \notin DOMAIN m.content

\* C5 witness: an unregistered tool was requested first in a round, the
\* round's next invocation and one of a following round were executed, and
\* run returned.
C5_Witness ==
    /\ RunReturned
    /\ \E i \in DOMAIN conversation :
          /\ IsUnknownMessage(conversation[i])
          /\ \E j, k \in DOMAIN executed :
                /\ executed[j].round = conversation[i].tool_call_id[1]
                /\ executed[j].call.id[2] > conversation[i].tool_call_id[2]
                /\ executed[k].round > executed[j].round

(***************************************************************************)
(* Claims about the graph.                                                 *)
(***************************************************************************)
ClaimedPath(i) ==
    IF i = "info" THEN <<"supervisor", "rag">>
    ELSE IF i = "data" THEN <<"supervisor", "query">>
    ELSE IF i = "viz" THEN <<"supervisor", "query_for_viz", "viz">>
    ELSE <<"supervisor", "clarify">>

IsPrefix(a, b) ==
    /\ Len(a) <= Len(b)
    /\ \A k \in DOMAIN a : a[k] = b[k]

ClaimedName(n) ==
    CASE n = "supervisor" -> "supervisor"
      [] n = "rag" -> "rag_agent"
      [] n \in {"query", "query_for_viz"} -> "query_agent"
      [] n = "viz" -> "viz_agent"
      [] n = "clarify" -> "clarify"

ClaimedAgentPath(i) ==
    IF i = "info" THEN <<"supervisor", "rag_agent">>
    ELSE IF i = "data" THEN <<"supervisor", "query_agent">>
    ELSE IF i = "viz" THEN <<"supervisor", "query_agent", "viz_agent">>
    ELSE <<"supervisor", "clarify">>

C14_AtEnd ==
    node = "END" =>
       /\ agent_path = ClaimedAgentPath(intent)
       /\ agent_path = [k \in DOMAIN trace |-> ClaimedName(trace[k])]
       /\ agent_path[1] = "supervisor"
       /\ \A j, k \in DOMAIN agent_path :
             j # k => agent_path[j] # agent_path[k]

C14_AppendOnly == IsPrefix(agent_path, agent_path')

\* C14: at END agent_path names every node that ran, in execution order,
\* each once, supervisor first: supervisor, rag_agent for info; supervisor,
\* query_agent for data; supervisor, query_agent, viz_agent for viz;
\* supervisor, clarify otherwise; and every step leaves the path it found as
\* a prefix of the path it leaves.
C14_AgentPath == []C14_AtEnd /\ [][C14_AppendOnly]_vars

\* C14 witness: the viz path has run to END and left its three names.
C14_Witness ==
    /\ node = "END"
    /\ intent = "viz"
    /\ agent_path = <<"supervisor", "query_agent", "viz_agent">>

(***************************************************************************)
(* Claims about the fetch/cache layer.                                     *)
(***************************************************************************)
CallDone == mpc = "done"
Failed(a) == a.result \in {"raise", "timeout"}
FileOf(c) == cache[build_cache_key(c)]
HasFile(c) == build_cache_key(c) \in DOMAIN cache

\* C7: a call that misses the cache tries ERDDAP first and once; it tries
\* GDAC, once and second, exactly when the ERDDAP attempt raised or timed
\* out; when both fail it returns None; it never makes a third attempt.
C7_FallbackOrder ==
    /\ Len(attempts) <= 2
    /\ Len(attempts) >= 1 => attempts[1].src = "erddap"
    /\ Len(attempts) = 2 => attempts[2].src = "gdac" /\ Failed(attempts[1])
    /\ \A k \in DOMAIN attempts : attempts[k].request = fetch_request(call)
    /\ mpc \in {"filter", "write", "writing"} =>
          attempts[Len(attempts)].result = "ok"
    /\ CallDone /\ ~hit =>
          /\ Len(attempts) >= 1
          /\ Failed(attempts[1]) <=> Len(attempts) = 2
          /\ (\A k \in DOMAIN attempts : Failed(attempts[k])) <=>
                (outcome = "returned" /\ ret = NoneValue)
          /\ outcome = "returned"

\* C7 witness: ERDDAP timed out, GDAC raised, and the call returned None.
C7_Witness ==
    /\ CallDone
    /\ Len(attempts) = 2
    /\ attempts[1].result = "timeout"
    /\ attempts[2].result = "raise"
    /\ outcome = "returned"
    /\ ret = NoneValue

C9_NeverRaises == outcome # "raised"

FlaggedVars(d) ==
    {var \in {"TEMP", "PSAL", "PRES", "DOXY"} :
        var \in DOMAIN d.vars /\ qc_name(var) \in DOMAIN d.vars}

\* `d` is the quality-filtered form of `r`: the same variables; a measurement
\* of a flagged variable is NaN when its flag is outside {1, 2} and is that
\* of r otherwise; everything else is as in r.
FilteredFrom(d, r) ==
    /\ d.kind = "dataset"
    /\ DOMAIN d.vars = DOMAIN r.vars
    /\ \A n \in DOMAIN d.vars :
          /\ DOMAIN d.vars[n] = DOMAIN r.vars[n]
          /\ n \notin FlaggedVars(r) => d.vars[n] = r.vars[n]
          /\ n \in FlaggedVars(r) =>
                \A k \in DOMAIN d.vars[n] :
                   /\ r.vars[qc_name(n)][k] \notin {1, 2} => d.vars[n][k] = NaN
                   /\ r.vars[qc_name(n)][k] \in {1, 2} =>
                         d.vars[n][k] = r.vars[n][k]

\* C10: every dataset a call returns, after a fetch or from the cache, and
\* every dataset in a cache file is the quality-filtered form of what the
\* remote source gave; the dataset handed to the cache write is filtered
\* already.
C10_QualityFiltered ==
    /\ (CallDone /\ outcome = "returned" /\ ret # NoneValue) =>
          /\ raw \in RawDatasets
          /\ FilteredFrom(ret, raw)
    /\ mpc \in {"write", "writing"} => FilteredFrom(ds, raw)
    /\ \A key \in DOMAIN cache :
          cache[key].kind = "complete" =>
             /\ cache[key].raw \in RawDatasets
             /\ FilteredFrom(cache[key].data, cache[key].raw)

\* C10 witness: a call served from the cache returned a dataset in which a
\* badly flagged TEMP measurement is NaN and a well flagged one is kept.
C10_Witness ==
    /\ CallDone /\ hit /\ outcome = "returned"
    /\ raw.vars["TEMP"][1] # NaN
    /\ raw.vars["TEMP_QC"][1] \notin {1, 2}
    /\ ret.vars["TEMP"][1] = NaN
    /\ raw.vars["TEMP_QC"][2] \in {1, 2}
    /\ ret.vars["TEMP"][2] = raw.vars["TEMP"][2]
    /\ ret.vars["TEMP"][2] # NaN

(***************************************************************************)
(* Claims about _fetch_xarray_with_timeout.                                *)
(***************************************************************************)
\* The time limit has expired and the pool thread has not finished.
WorkerAbandoned == mpc = "join" /\ worker = "running"

\* C11: when the worker has not finished at the moment the time limit
\* expires, TimeoutError reaches the caller at that moment, without waiting
\* for the worker: while the worker is still running the caller can go on.
C11_TimeoutWithoutWaiting == WorkerAbandoned => ENABLED fetch_timed_out

(***************************************************************************)
(* Claims about the data tools.                                            *)
(***************************************************************************)
\* The data-layer call of the tool has ended.
DataCallEnded == tpc = "result"

\* C12: on every fetch path a timeout of the first source is handled like
\* any other failure of it: the second source is attempted, once, and the
\* path fails (None or an exception, which the tool turns into a structured
\* failure) only when the second source failed too.
C12_TimeoutFallsBack ==
    /\ Len(t_attempts) <= 2
    /\ (DataCallEnded /\ t_attempts # <<>> /\ Failed(t_attempts[1])) =>
          /\ Len(t_attempts) = 2
          /\ t_attempts[2].src # t_attempts[1].src
    /\ (DataCallEnded /\ t_attempts # <<>>
           /\ data_result.kind \in {"None", "raised"}) =>
          /\ Len(t_attempts) = 2
          /\ \A k \in DOMAIN t_attempts : Failed(t_attempts[k])

(***************************************************************************)
(* Claims about classify_intent.                                           *)
(***************************************************************************)
Classified == c_result # Pending
FallbackUsed == normalize(c_output) \notin valid_intents

\* C13: when the model's output is not one of the four labels, the result
\* is that of the first rule that matches, in the order: data keyword gives
\* data; visualization keyword gives viz; the word 'show' gives data; an
\* explanatory phrase gives info; the word 'how' gives info; else clarify.
C13_FallbackPrecedence ==
    (Classified /\ FallbackUsed) =>
       LET d == has_data_keyword(c_message)
           v == has_viz_keyword(c_message)
           s == has_word(c_message, "show")
           e == has_explain_phrase(c_message)
           h == has_word(c_message, "how")
       IN  /\ d => c_result = "data"
           /\ (~d /\ v) => c_result = "viz"
           /\ (~d /\ ~v /\ s) => c_result = "data"
           /\ (~d /\ ~v /\ ~s /\ e) => c_result = "info"
           /\ (~d /\ ~v /\ ~s /\ ~e /\ h) => c_result = "info"
           /\ (~d /\ ~v /\ ~s /\ ~e /\ ~h) => c_result = "clarify"

\* C13 witness: 'Show map temperature' with an answer that is no label was
\* classified data.
C13_Witness ==
    /\ Classified /\ FallbackUsed
    /\ c_message = <<"Show", "map", "temperature">>
    /\ c_result = "data"

(***************************************************************************)
(* Claims about VizAgent.run.                                              *)
(***************************************************************************)
\* The chart the deterministic rules give for one result ("none": no chart).
ClaimedChart(r) ==
    IF ~r.success THEN "none"
    ELSE IF r.chart_hint = "trajectory_map" /\ r.trajectory = "full"
    THEN "trajectory_map"
    ELSE IF r.chart_hint = "depth_profile" /\ r.depth THEN "depth_profile"
    ELSE IF r.chart_hint = "bar_chart" /\ r.comparisons = "mean"
    THEN "bar_chart"
    ELSE IF r.samples THEN "scatter_map"
    ELSE IF r.mean THEN "bar_chart"
    ELSE "none"

Yielding == {k \in DOMAIN v_results : ClaimedChart(v_results[k]) # "none"}
FirstYielding == CHOOSE k \in Yielding : \A j \in Yielding : k <= j
\* run has called the language model or is about to.
ModelAsked == v_pc = "llm" \/ v_llm_calls > 0
InferenceDone == v_pc # "start"

\* C15: run calls the language model exactly when no successful tool result
\* yields a chart; otherwise it returns the chart the rules give for the
\* first result that yields one: the hinted type when the hint's data is
\* there, else a scatter map from samples, else a bar chart from a mean.
C15_ChartOrModel ==
    InferenceDone =>
       /\ ModelAsked <=> Yielding = {}
       /\ Yielding # {} =>
             /\ v_pc \in {"returned", "end"}
             /\ v_viz = Chart(ClaimedChart(v_results[FirstYielding]))
             /\ v_llm_calls = 0

FallbackPath == v_llm_calls > 0
IsChartSpecification(v) ==
    v.json = "object" /\ v.chart_type # "" /\ v.plotly_json

\* C16: on the fallback path run returns, for every model output, a chart
\* specification object or the no-chart result; an output that is no chart
\* specification does not become the visualization of the response and
\* does not make the request fail.
C16_FallbackDefensive ==
    FallbackPath =>
       /\ v_pc # "raised"
       /\ IsChartSpecification(v_viz) \/ v_viz = NoChart
       /\ v_pc = "end" =>
             /\ ~v_response.failed
             /\ \/ v_response.visualization = NoneViz
                \/ IsChartSpecification(v_response.visualization)

(***************************************************************************)
(* Claims about the sanitizer and the chat endpoints.                      *)
(***************************************************************************)
\* The endpoint has answered without failing.
Answered == v_pc = "end" /\ ~v_response.failed

\* C17: the content chat_message returns, the content chat_stream streams
\* and the assistant content stored in the session are sanitize_response of
\* the content of the final agent message.
C17_ResponseSanitized ==
    Answered =>
       /\ v_response.content = sanitize_response(v_final)
       /\ v_stored.stored
       /\ v_stored.content = sanitize_response(v_final)

\* C18: sanitize_response applied to its own result gives that result.
C18_Idempotent == s_pc = "twice" => s_twice = s_once

\* C19: of prose p, a well-formed block (empty, with text, or with a block
\* and text in it) and prose q, sanitize_response leaves p and q, in this
\* order, and nothing else: no tag and no text from inside the block.
C19_WellFormedRemoved ==
    (s_pc # "start" /\ s_in \in WellFormedTexts) =>
       s_once = <<Prose("p"), Prose("q")>>

(***************************************************************************)
(* Claim about the validation of the variable argument.                    *)
(***************************************************************************)
\* The tool in hand takes a variable and was given one that is not valid.
InvalidVariable ==
    /\ tpc # "idle"
    /\ tool.name \in VariableTools
    /\ upper(tool.variable) \notin valid_vars

\* C20: a tool that takes a variable and is given one outside TEMP, PSAL,
\* PRES, DOXY (whatever the case of the letters) makes no call to the data
\* manager and returns success = false with an error.
C20_InvalidVariableRejected ==
    InvalidVariable =>
       /\ data_calls = 0
       /\ tpc = "returned" => (~tool_out.success /\ tool_out.error # "")

(***************************************************************************)
(* Claims about the requests of the region tools.                          *)
(***************************************************************************)
RequestSent == rq_pc = "sent"

\* C21: every request a region tool passes to the data layer has its
\* latitude bounds within -90..90 and its longitude bounds within -180..180.
C21_BoxInDomain ==
    RequestSent =>
       /\ rq_sent.lat_min \in -90..90
       /\ rq_sent.lat_max \in -90..90
       /\ rq_sent.lon_min \in -180..180
       /\ rq_sent.lon_max \in -180..180

\* C22: query_ocean_data invoked without dates passes a start_date and an
\* end_date that are not None to get_data; invoked with both dates it
\* passes the two dates it was given.
C22_SmartDateDefaults ==
    (RequestSent /\ rq_args.tool = "query_ocean_data") =>
       /\ (rq_args.start_date = None /\ rq_args.end_date = None) =>
             (rq_sent.start_date # None /\ rq_sent.end_date # None)
       /\ (rq_args.start_date # None /\ rq_args.end_date # None) =>
             /\ rq_sent.start_date = rq_args.start_date
             /\ rq_sent.end_date = rq_args.end_date

\* C23: ocean_basin_bounds returns success = true with bounds for every
\* basin name of the query agent's system prompt, and latitudes -20 to 20
\* for tropical_atlantic.
C23_PromptBasinsKnown ==
    (rq_pc = "returned" /\ b_basin \in PromptBasins) =>
       /\ b_out.success
       /\ b_out.bounds = OCEAN_BASINS[b_out.basin]
       /\ b_basin = "tropical_atlantic" =>
             (b_out.bounds.lat_min = -20 /\ b_out.bounds.lat_max = 20)

(***************************************************************************)
(* Claim about the session history under concurrent requests.              *)
(***************************************************************************)
\* Every request has completed successfully.
AllCompleted == \A r \in Requests : h_pc[r] = "done"

\* The messages of request r in history h.
MessagesOf(h, r) == SelectSeq(h, LAMBDA m : m.request = r)

\* History h is a sequence of user/assistant pairs, each of one request.
IsPairs(h) ==
    /\ Len(h) % 2 = 0
    /\ \A i \in 1..Len(h) :
          IF i % 2 = 1
          THEN h[i].role = "user"
          ELSE /\ h[i].role = "assistant"
               /\ h[i].request = h[i - 1].request

\* C24: when the concurrent chat_message requests have all completed
\* successfully, each has stored one user and one assistant message in its
\* session, and every session's history is a sequence of user/assistant
\* pairs, the assistant message directly after its request's user message.
C24_HistoryPairs ==
    AllCompleted =>
       /\ \A r \in Requests :
             MessagesOf(sessions[h_session[r]], r) =
                <<StoredMessage("user", r), StoredMessage("assistant", r)>>
       /\ \A sid \in DOMAIN sessions : IsPairs(sessions[sid])

(***************************************************************************)
(* Claim about the conversation of QueryAgent.run.                         *)
(***************************************************************************)
IsToolRequest(m) == m.type = "ai" /\ m.tool_calls # <<>>

\* In conversation c the response at position p is directly followed by one
\* tool message per tool call of it, with the call's id, in the calls'
\* order, and by no further tool message.
AnsweredAt(c, p) ==
    LET calls == c[p].tool_calls
    IN  /\ p + Len(calls) <= Len(c)
        /\ \A i \in 1..Len(calls) :
              /\ c[p + i].type = "tool"
              /\ c[p + i].tool_call_id = calls[i].id
        /\ p + Len(calls) < Len(c) => c[p + Len(calls) + 1].type # "tool"

C25_AtModelCalls ==
    \A k \in DOMAIN llm_calls :
       k > 1 =>
          LET c == llm_calls[k].input
          IN  \A p \in DOMAIN c : IsToolRequest(c[p]) => AnsweredAt(c, p)

C25_AppendOnly ==
    /\ IsPrefix(conversation, conversation')
    /\ messages' = messages

\* C25: inside run the conversation only grows by appending and the
\* messages list of the incoming state stays as it was; the conversation
\* given to every model call after the first (the summary call too) has,
\* directly after each tool-requesting response, one tool message per
\* invocation of the response, with the invocation's id, in order.
C25_Conversation == []C25_AtModelCalls /\ [][C25_AppendOnly]_vars

\* A model call whose conversation holds the tool message of an invocation
\* that succeeded, of one that raised and of one that named an unknown tool.
C25_Witness ==
    /\ Len(llm_calls) > 1
    /\ LET c == llm_calls[Len(llm_calls)].input
       IN  /\ \E p \in DOMAIN c :
                /\ c[p].type = "tool"
                /\ "success" \notin DOMAIN c[p].content
           /\ \E p \in DOMAIN c :
                /\ c[p].type = "tool"
                /\ "success" \in DOMAIN c[p].content
                /\ ~c[p].content.success
           /\ \E p \in DOMAIN c :
                /\ c[p].type = "tool"
                /\ "success" \in DOMAIN c[p].content
                /\ c[p].content.success
           /\ \E p \in DOMAIN c : IsToolRequest(c[p]) /\ Len(c[p].tool_calls) > 1

(***************************************************************************)
(* Claim about the dates of a remote region request.                       *)
(***************************************************************************)
\* C27: every remote fetch of a get_data call asks for exactly the date
\* bounds of the call, which are those of its cache key: a start_date or an
\* end_date of the call is in the request, also when the other is None, and
\* a call without dates sends none.
C27_DatesApplied ==
    call.kind = "region" =>
       \A k \in DOMAIN attempts :
          LET dates == attempts[k].request.dates
          IN  /\ call.start_date # None =>
                    (dates # <<>> /\ dates[1] = call.start_date)
              /\ call.end_date # None =>
                    (dates # <<>> /\ dates[2] = call.end_date)
              /\ (call.start_date = None /\ call.end_date = None) =>
                    dates = <<>>

(***************************************************************************)
(* Claim about concurrent calls on one cache file.                         *)
(***************************************************************************)
\* No call is inside get_data.
AllReturned == \A t \in Threads : k_pc[t] \in {"idle", "done"}

\* C26: with calls of the same parameters on several threads, a cache hit
\* opens a completely written file, never one that another call is still
\* writing, and when the calls have finished the file in the cache is a
\* complete dataset.
C26_NoTornRead ==
    /\ \A t \in Threads : k_read[t] \in {"none", "complete"}
    /\ (AllReturned /\ k_file # "absent") => k_file = "complete"

(***************************************************************************)
(* Claim about chart hints.                                                *)
(***************************************************************************)
\* A successful result with a chart_hint and the data the hint requires.
HintedWithData(r) ==
    /\ r.success
    /\ \/ r.chart_hint = "trajectory_map" /\ r.trajectory = "full"
       \/ r.chart_hint = "depth_profile" /\ r.depth
       \/ r.chart_hint = "bar_chart" /\ r.comparisons = "mean"

Hinted == {k \in DOMAIN v_results : HintedWithData(v_results[k])}

\* C28: when some successful result has a chart_hint and the hint's data,
\* the chart run returns has the type of such a result, whatever other
\* results there are and whatever the order of the results.
C28_HintWins ==
    (v_pc \in {"returned", "end"} /\ Hinted # {}) =>
       \E k \in Hinted : v_viz = Chart(v_results[k].chart_hint)

(***************************************************************************)
(* Claim about the lazily constructed data manager.                        *)
(***************************************************************************)
\* C29: every call of _get_manager by a tool returns a manager, also in a
\* process where no manager was set: the first call constructs one from
\* the settings, and later calls through the same module return the
\* instance the module holds (the same one until set_manager replaces it).
C29_LazyManager ==
    \A k \in DOMAIN g_log :
       /\ g_log[k].raised = ""
       /\ g_log[k].instance # NoManager
       /\ \A j \in 1..(k - 1) :
             (g_log[j].module = g_log[k].module /\ g_log[j].sets = g_log[k].sets)
                => g_log[j].instance = g_log[k].instance

(***************************************************************************)
(* Claim about the rate limiter.                                           *)
(***************************************************************************)
\* The requests before the k-th (or up to it) that were forwarded on an API
\* path for the k-th request's client within the 60 seconds that end at the
\* k-th request.
ForwardedBefore(k, upto) ==
    {j \in 1..upto :
        /\ l_log[j].ip = l_log[k].ip
        /\ is_api(l_log[j].path)
        /\ l_log[j].status = "forwarded"
        /\ l_log[j].time > l_log[k].time - 60}

\* C30: a request on an API path is answered 429 exactly when its client
\* has requests_per_minute or more forwarded API requests in the preceding
\* 60 seconds, so no more than that many are forwarded in a 60-second
\* window; rejected requests are not counted; requests on other paths are
\* forwarded and not counted.
C30_RateLimit ==
    \A k \in DOMAIN l_log :
       IF is_api(l_log[k].path)
       THEN /\ l_log[k].status = "429" <=>
                  Cardinality(ForwardedBefore(k, k - 1)) >= l_limit
            /\ l_log[k].status = "forwarded" =>
                  Cardinality(ForwardedBefore(k, k)) <= l_limit
       ELSE l_log[k].status = "forwarded"

\* A client is refused, and served again once the window has passed, with
\* a request on another path in the log.
C30_Witness ==
    /\ l_limit > 0
    /\ \E k \in DOMAIN l_log, j \in DOMAIN l_log :
          /\ k < j
          /\ l_log[k].status = "429"
          /\ l_log[j].ip = l_log[k].ip
          /\ is_api(l_log[j].path)
          /\ l_log[j].status = "forwarded"
    /\ \E k \in DOMAIN l_log : ~is_api(l_log[k].path)

====
